---- MODULE Spec2Model ----
(***************************************************************************)
(* Mini-fulfillment conveyor: the PLC scan (local_plc_logic.py), the tag   *)
(* table (opc_client.py) and the process simulator's sub-step              *)
(* (process_sim.py).                                                       *)
(*                                                                         *)
(* Units.  Time is counted in units of 10 ms, so that both a 0.02 s and a  *)
(* 0.05 s sub-step are whole numbers (2 and 5); positions are millimetres. *)
(* Real arithmetic is exact here (the rounding of the Python floats is not *)
(* modelled).                                                              *)
(*                                                                         *)
(* Left out of the state: the blink timer and the two status lights, the   *)
(* cycle timer with its sum and last value, the running/fault time         *)
(* accumulators, the average cycle time and the throughput.  They feed no  *)
(* decision of the scan.                                                   *)
(***************************************************************************)
EXTENDS Integers, Sequences, FiniteSets, TLC

VARIABLES
    plc,                \* the fields of LocalPLCLogic
    tags,               \* OPCUAClient._local_tags
    active_boxes,       \* ProcessSimulator.active_boxes
    sim_time,           \* ProcessSimulator.sim_time
    next_box_id,        \* ProcessSimulator.next_box_id
    next_arrival_time,  \* ProcessSimulator.next_arrival_time
    recovering,         \* ProcessSimulator._recovering
    jam_recovery_timer, \* ProcessSimulator._jam_recovery_timer
    events,             \* the events handed to DataLogger.log_event, in order
    config,             \* the loaded configuration (rate, jams, sub-step)
    pc,                 \* where the driver is: "scan" harness or run() phases
    last_op,            \* the operation that produced this state
    rng,                \* the module-level generator of `random`
    reply,              \* what the last OPCUAClient.read / write call of the
                        \* client harness was given, returned or raised
    runs,               \* history of a seeded main(): invocations finished,
                        \* the arrival times scheduled in this one, and what
                        \* the first invocation scheduled and logged
    pre                 \* history: the control state at the start of the last
                        \* scan and its dt; in a run, the time FAULT was last
                        \* first seen by the operator, the FAULT entries, and
                        \* the photoeye values the last sub-step's scan (pe)
                        \* and its recovery scans (rpe) started with

vars == <<plc, tags, active_boxes, sim_time, next_box_id, next_arrival_time,
          recovering, jam_recovery_timer, events, config, pc, last_op, rng,
          reply, runs, pre>>

simVars == <<active_boxes, sim_time, next_box_id, next_arrival_time,
             recovering, jam_recovery_timer, events, rng, runs, reply>>

-----------------------------------------------------------------------------
(* SystemState and FaultCode *)

STOPPED == 0
STARTING == 1
RUNNING == 2
FAULT == 3

NONE == 0
ESTOP == 1
JAM_INFEED == 2
JAM_DIVERTER == 3
JAM_OUTFEED_B == 4
JAM_OUTFEED_C == 5

FAULT_MESSAGES(fc) ==
    CASE fc = NONE -> ""
      [] fc = ESTOP -> "EMERGENCY STOP ACTIVATED"
      [] fc = JAM_INFEED -> "JAM DETECTED AT INFEED (Station A)"
      [] fc = JAM_DIVERTER -> "JAM DETECTED AT DIVERTER"
      [] fc = JAM_OUTFEED_B -> "JAM DETECTED AT OUTFEED B (Station B)"
      [] fc = JAM_OUTFEED_C -> "JAM DETECTED AT OUTFEED C (Station C)"
      [] OTHER -> ""

\* the four jam sites, in the order pe_map is iterated
Sites == <<"infeed", "diverter", "outfeed_b", "outfeed_c">>

SiteSet == {Sites[i] : i \in 1..Len(Sites)}

SiteFaultCode(loc) ==
    CASE loc = "infeed" -> JAM_INFEED
      [] loc = "diverter" -> JAM_DIVERTER
      [] loc = "outfeed_b" -> JAM_OUTFEED_B
      [] loc = "outfeed_c" -> JAM_OUTFEED_C

\* seconds of start delay, in 10 ms units (1.0 s)
StartDelay == 100

\* every third box is rejected
RejectEvery == 3

-----------------------------------------------------------------------------
(* The tag table *)

TagDefaults ==
    [ bStartPB |-> FALSE, bStopPB |-> TRUE, bEStop |-> TRUE,
      bModeSelector |-> FALSE,
      bInfeedPE |-> FALSE, bDiverterPE |-> FALSE,
      bOutfeedBPE |-> FALSE, bOutfeedCPE |-> FALSE,
      bConveyorMotor |-> FALSE, bDiverterActuator |-> FALSE,
      bAlarmBuzzer |-> FALSE,
      bHMI_Start |-> FALSE, bHMI_Stop |-> FALSE,
      bHMI_FaultClear |-> FALSE, bHMI_JogFwd |-> FALSE,
      iHMI_State |-> 0, sHMI_FaultMsg |-> "",
      rHMI_BoxCount |-> 0, rHMI_JamCount |-> 0,
      rJamTimeoutSec |-> 400, rConveyorSpeed |-> 1 ]

TagNames == DOMAIN TagDefaults

\* OPCUAClient.write in local mode: the store is updated, unknown names fail
WriteTag(t, name, value) == [t EXCEPT ![name] = value]

\* no client call made yet
NoReply ==
    [ op |-> "none", name |-> "", value |-> FALSE, error |-> "none",
      writes |-> 0 ]

\* a name that is not in TAG_DEFINITIONS
UnknownNames == {"bNoSuchTag"}

\* the values the client harness writes to a tag: both booleans, and two
\* numbers or texts for the others
TagValues(name) ==
    IF name \in UnknownNames THEN {TRUE}
    ELSE IF name = "sHMI_FaultMsg" THEN {"", "E-STOP"}
    ELSE IF name = "rJamTimeoutSec" THEN {100, 400}
    ELSE IF name \in {"iHMI_State", "rHMI_BoxCount", "rHMI_JamCount",
                      "rConveyorSpeed"} THEN {0, 1}
    ELSE BOOLEAN

\* a faulty write, used to show C31 depends on the store taking every tag:
\* writes to the tags declared writable=False are dropped
ClientWriteReadOnly(t, name, value) ==
    IF name \notin TagNames
    THEN [ tags |-> t, error |-> "KeyError" ]
    ELSE IF name \in {"bConveyorMotor", "bDiverterActuator", "bAlarmBuzzer",
                      "iHMI_State", "sHMI_FaultMsg", "rHMI_BoxCount",
                      "rHMI_JamCount"}
    THEN [ tags |-> t, error |-> "none" ]
    ELSE [ tags |-> WriteTag(t, name, value), error |-> "none" ]

\* a faulty write, used to show C32 depends on the name test: the store
\* takes any name, as a plain dict assignment would
ClientWriteAnyName(t, name, value) ==
    [ tags |-> [n \in (DOMAIN t) \cup {name} |->
                  IF n = name THEN value ELSE t[n]],
      error |-> "none" ]

\* OPCUAClient.write(name, value) in local mode: KeyError for a name outside
\* TAG_DEFINITIONS, else the local store is updated
ClientWrite(t, name, value) ==
    IF name \notin TagNames
    THEN [ tags |-> t, error |-> "KeyError" ]
    ELSE [ tags |-> WriteTag(t, name, value), error |-> "none" ]

\* OPCUAClient.read(name) in local mode: KeyError for a name outside
\* TAG_DEFINITIONS, else the value in the local store
ClientRead(t, name) ==
    IF name \notin TagNames
    THEN [ value |-> FALSE, error |-> "KeyError" ]
    ELSE [ value |-> t[name], error |-> "none" ]

\* the four photoeye tags as one record
PEOf(t) ==
    [ infeed |-> t.bInfeedPE, diverter |-> t.bDiverterPE,
      outfeed_b |-> t.bOutfeedBPE, outfeed_c |-> t.bOutfeedCPE ]

WritePE(t, pe) ==
    [t EXCEPT !.bInfeedPE = pe.infeed, !.bDiverterPE = pe.diverter,
              !.bOutfeedBPE = pe.outfeed_b, !.bOutfeedCPE = pe.outfeed_c]

-----------------------------------------------------------------------------
(* LocalPLCLogic *)

PlcInit ==
    [ state |-> STOPPED, fault_code |-> NONE,
      estop_latched |-> FALSE,
      prev_start |-> FALSE, prev_stop |-> TRUE, prev_estop |-> TRUE,
      prev_fault_clear |-> FALSE,
      start_timer |-> 0,
      jam_timers |-> [s \in SiteSet |-> 0],
      jam_latched |-> FALSE, jam_location |-> "",
      box_counter |-> 0, reject_next |-> FALSE,
      prev_infeed_pe |-> FALSE, prev_diverter_pe |-> FALSE,
      diverter_locked |-> FALSE,
      metrics_box_count |-> 0, metrics_jam_count |-> 0,
      cycle_active |-> FALSE,
      cycle_timer |-> 0, cycle_time_sum |-> 0, last_cycle_time |-> 0,
      prev_outfeed_b |-> FALSE, prev_outfeed_c |-> FALSE,
      prev_jam_event |-> FALSE, prev_infeed_metrics |-> FALSE ]

\* rising / falling edge of a signal against its previous-scan value
Rising(cur, prev) == cur /\ ~prev

Falling(cur, prev) == prev /\ ~cur

\* 1. SAFETY: the e-stop latch
SafetyLatch(p, estop) ==
    IF ~estop
    THEN [p EXCEPT !.estop_latched = TRUE, !.fault_code = ESTOP]
    ELSE p

\* a faulty unlatch, used to show C4 depends on the e-stop being healthy:
\* any fault-clear rising edge unlatches
SafetyUnlatchAnyClear(p, estop, clear_rising) ==
    IF p.estop_latched /\ clear_rising
    THEN [p EXCEPT !.estop_latched = FALSE,
                   !.fault_code = IF ~p.jam_latched THEN NONE ELSE @]
    ELSE p

\* a faulty unlatch, used to show C37 depends on the jam test: unlatching
\* the e-stop always clears the fault code
SafetyUnlatchClearsCode(p, estop, clear_rising) ==
    IF p.estop_latched /\ clear_rising /\ estop
    THEN [p EXCEPT !.estop_latched = FALSE, !.fault_code = NONE]
    ELSE p

\* 1. SAFETY: unlatching on a fault-clear rising edge with the e-stop healthy
SafetyUnlatch(p, estop, clear_rising) ==
    IF p.estop_latched /\ clear_rising /\ estop
    THEN [p EXCEPT !.estop_latched = FALSE,
                   !.fault_code = IF ~p.jam_latched THEN NONE ELSE @]
    ELSE p

\* a faulty fault_active, used to show C36 depends on the jam latch being
\* part of it: only the e-stop latch counts as a fault
FaultActiveEStopOnly(p) == p.estop_latched

FaultActive(p) == p.estop_latched \/ p.jam_latched

\* a faulty safe_to_run, used to show C35 depends on the latches: only the
\* two inputs are tested
SafeToRunInputsOnly(p, estop, stop_pb) == estop /\ stop_pb

SafeToRun(p, estop, stop_pb) ==
    estop /\ ~p.estop_latched /\ ~p.jam_latched /\ stop_pb

\* a faulty loop body, used to show C7 depends on the latch guard: a site
\* reaching the timeout overwrites the site latched earlier in the same scan
JamSiteLastWins(p, loc, pe_val, dt, jam_timeout) ==
    LET t == IF pe_val /\ p.state = RUNNING THEN p.jam_timers[loc] + dt ELSE 0
    IN  IF t >= jam_timeout
        THEN [p EXCEPT !.jam_timers[loc] = t,
                       !.jam_latched = TRUE, !.jam_location = loc,
                       !.fault_code = SiteFaultCode(loc)]
        ELSE [p EXCEPT !.jam_timers[loc] = t]

\* a faulty loop body, used to show C33 depends on the reset: a clear
\* photoeye pauses the site's timer instead of resetting it
JamSitePaused(p, loc, pe_val, dt, jam_timeout) ==
    LET t == IF pe_val /\ p.state = RUNNING THEN p.jam_timers[loc] + dt
             ELSE IF p.state = RUNNING THEN p.jam_timers[loc] ELSE 0
    IN  IF t >= jam_timeout /\ ~p.jam_latched
        THEN [p EXCEPT !.jam_timers[loc] = t,
                       !.jam_latched = TRUE, !.jam_location = loc,
                       !.fault_code = SiteFaultCode(loc)]
        ELSE [p EXCEPT !.jam_timers[loc] = t]

\* 2. JAM DETECTION: one iteration of the loop over pe_map
JamSite(p, loc, pe_val, dt, jam_timeout) ==
    LET t == IF pe_val /\ p.state = RUNNING THEN p.jam_timers[loc] + dt ELSE 0
    IN  IF t >= jam_timeout /\ ~p.jam_latched
        THEN [p EXCEPT !.jam_timers[loc] = t,
                       !.jam_latched = TRUE, !.jam_location = loc,
                       !.fault_code = SiteFaultCode(loc)]
        ELSE [p EXCEPT !.jam_timers[loc] = t]

RECURSIVE JamLoop(_, _, _, _, _)
JamLoop(p, i, pe, dt, jam_timeout) ==
    IF i > Len(Sites) THEN p
    ELSE JamLoop(JamSite(p, Sites[i], pe[Sites[i]], dt, jam_timeout),
                 i + 1, pe, dt, jam_timeout)

JamDetection(p, pe, dt, jam_timeout) ==
    IF p.state = RUNNING \/ p.jam_latched
    THEN JamLoop(p, 1, pe, dt, jam_timeout)
    ELSE [p EXCEPT !.jam_timers = [s \in SiteSet |-> 0]]

\* a faulty jam clear, used to show C8 depends on the photoeye test: any
\* fault-clear rising edge clears the jam latch
JamClearAnySite(p, pe, clear_rising) ==
    IF p.jam_latched /\ clear_rising
    THEN [p EXCEPT !.jam_latched = FALSE, !.jam_location = "",
                   !.fault_code = IF ~p.estop_latched THEN NONE ELSE @]
    ELSE p

\* 2. Jam clear: only with the photoeye of the latched site unblocked
JamClear(p, pe, clear_rising) ==
    IF p.jam_latched /\ clear_rising
    THEN IF p.jam_location \in SiteSet /\ ~pe[p.jam_location]
         THEN [p EXCEPT !.jam_latched = FALSE, !.jam_location = "",
                        !.fault_code = IF ~p.estop_latched THEN NONE ELSE @]
         ELSE p
    ELSE p

\* 3. STATE MACHINE, each branch: the control state, motor_cmd and alarm
StoppedBranch(p, start_cmd) ==
    IF start_cmd
    THEN [ p |-> [p EXCEPT !.state = STARTING, !.start_timer = 0],
           motor_cmd |-> FALSE, alarm |-> FALSE ]
    ELSE [ p |-> p, motor_cmd |-> FALSE, alarm |-> FALSE ]

\* a faulty STARTING branch, used to show C1 depends on the motor staying
\* off during the scan that enters RUNNING
StartingBranchMotorOn(p, fault_active, safe_to_run, dt) ==
    LET p1 == [p EXCEPT !.start_timer = @ + dt]
    IN  IF fault_active
        THEN [ p |-> [p1 EXCEPT !.state = FAULT],
               motor_cmd |-> FALSE, alarm |-> FALSE ]
        ELSE IF p1.start_timer >= StartDelay /\ safe_to_run
        THEN [ p |-> [p1 EXCEPT !.state = RUNNING],
               motor_cmd |-> TRUE, alarm |-> FALSE ]
        ELSE [ p |-> p1, motor_cmd |-> FALSE, alarm |-> FALSE ]

\* a faulty STARTING branch, used to show C6 depends on the comparison:
\* the start delay has to be exceeded, not reached
StartingBranchStrict(p, fault_active, safe_to_run, dt) ==
    LET p1 == [p EXCEPT !.start_timer = @ + dt]
    IN  IF fault_active
        THEN [ p |-> [p1 EXCEPT !.state = FAULT],
               motor_cmd |-> FALSE, alarm |-> FALSE ]
        ELSE IF p1.start_timer > StartDelay /\ safe_to_run
        THEN [ p |-> [p1 EXCEPT !.state = RUNNING],
               motor_cmd |-> FALSE, alarm |-> FALSE ]
        ELSE [ p |-> p1, motor_cmd |-> FALSE, alarm |-> FALSE ]

StartingBranch(p, fault_active, safe_to_run, dt) ==
    LET p1 == [p EXCEPT !.start_timer = @ + dt]
    IN  IF fault_active
        THEN [ p |-> [p1 EXCEPT !.state = FAULT],
               motor_cmd |-> FALSE, alarm |-> FALSE ]
        ELSE IF p1.start_timer >= StartDelay /\ safe_to_run
        THEN [ p |-> [p1 EXCEPT !.state = RUNNING],
               motor_cmd |-> FALSE, alarm |-> FALSE ]
        ELSE [ p |-> p1, motor_cmd |-> FALSE, alarm |-> FALSE ]

\* a faulty RUNNING branch, used to show C2 depends on the auto-mode motor
\* command: the motor follows the jog command in both modes
RunningBranchJogOnly(p, fault_active, safe_to_run, stop_falling, hmi_stop, mode_manual, jog_fwd) ==
    LET cmd == jog_fwd /\ safe_to_run
    IN  IF fault_active
        THEN [ p |-> [p EXCEPT !.state = FAULT],
               motor_cmd |-> FALSE, alarm |-> FALSE ]
        ELSE IF stop_falling \/ hmi_stop
        THEN [ p |-> [p EXCEPT !.state = STOPPED],
               motor_cmd |-> FALSE, alarm |-> FALSE ]
        ELSE [ p |-> p, motor_cmd |-> cmd, alarm |-> FALSE ]

\* a faulty RUNNING branch, used to show C3 depends on the fault test coming
\* first: a stop request wins over an active fault
RunningBranchStopFirst(p, fault_active, safe_to_run, stop_falling, hmi_stop, mode_manual, jog_fwd) ==
    LET cmd == IF ~mode_manual THEN TRUE ELSE jog_fwd /\ safe_to_run
    IN  IF stop_falling \/ hmi_stop
        THEN [ p |-> [p EXCEPT !.state = STOPPED],
               motor_cmd |-> FALSE, alarm |-> FALSE ]
        ELSE IF fault_active
        THEN [ p |-> [p EXCEPT !.state = FAULT],
               motor_cmd |-> FALSE, alarm |-> FALSE ]
        ELSE [ p |-> p, motor_cmd |-> cmd, alarm |-> FALSE ]

\* a faulty RUNNING branch, used to show C26 depends on the mode test: the
\* motor is commanded on in manual mode as in auto mode
RunningBranchManualAsAuto(p, fault_active, safe_to_run, stop_falling, hmi_stop, mode_manual, jog_fwd) ==
    IF fault_active
    THEN [ p |-> [p EXCEPT !.state = FAULT],
           motor_cmd |-> FALSE, alarm |-> FALSE ]
    ELSE IF stop_falling \/ hmi_stop
    THEN [ p |-> [p EXCEPT !.state = STOPPED],
           motor_cmd |-> FALSE, alarm |-> FALSE ]
    ELSE [ p |-> p, motor_cmd |-> TRUE, alarm |-> FALSE ]

\* a faulty RUNNING branch, used to show C25 depends on the HMI stop command:
\* only the stop pushbutton stops the conveyor
RunningBranchButtonOnly(p, fault_active, safe_to_run, stop_falling, hmi_stop, mode_manual, jog_fwd) ==
    LET cmd == IF ~mode_manual THEN TRUE ELSE jog_fwd /\ safe_to_run
    IN  IF fault_active
        THEN [ p |-> [p EXCEPT !.state = FAULT],
               motor_cmd |-> FALSE, alarm |-> FALSE ]
        ELSE IF stop_falling
        THEN [ p |-> [p EXCEPT !.state = STOPPED],
               motor_cmd |-> FALSE, alarm |-> FALSE ]
        ELSE [ p |-> p, motor_cmd |-> cmd, alarm |-> FALSE ]

\* a faulty RUNNING branch, used to show C40 depends on the transitions
\* withdrawing the command: the motor command stays on when a fault or a
\* stop is taken
RunningBranchKeepsCmd(p, fault_active, safe_to_run, stop_falling, hmi_stop, mode_manual, jog_fwd) ==
    LET cmd == IF ~mode_manual THEN TRUE ELSE jog_fwd /\ safe_to_run
    IN  IF fault_active
        THEN [ p |-> [p EXCEPT !.state = FAULT],
               motor_cmd |-> cmd, alarm |-> FALSE ]
        ELSE IF stop_falling \/ hmi_stop
        THEN [ p |-> [p EXCEPT !.state = STOPPED],
               motor_cmd |-> cmd, alarm |-> FALSE ]
        ELSE [ p |-> p, motor_cmd |-> cmd, alarm |-> FALSE ]

RunningBranch(p, fault_active, safe_to_run, stop_falling, hmi_stop, mode_manual, jog_fwd) ==
    LET cmd == IF ~mode_manual THEN TRUE ELSE jog_fwd /\ safe_to_run
    IN  IF fault_active
        THEN [ p |-> [p EXCEPT !.state = FAULT],
               motor_cmd |-> FALSE, alarm |-> FALSE ]
        ELSE IF stop_falling \/ hmi_stop
        THEN [ p |-> [p EXCEPT !.state = STOPPED],
               motor_cmd |-> FALSE, alarm |-> FALSE ]
        ELSE [ p |-> p, motor_cmd |-> cmd, alarm |-> FALSE ]

\* a faulty FAULT branch, used to show C5 depends on the target of the
\* transition out of FAULT: the conveyor restarts by itself
FaultBranchRestart(p, fault_active) ==
    IF ~fault_active
    THEN [ p |-> [p EXCEPT !.state = RUNNING],
           motor_cmd |-> FALSE, alarm |-> TRUE ]
    ELSE [ p |-> p, motor_cmd |-> FALSE, alarm |-> TRUE ]

FaultBranch(p, fault_active) ==
    IF ~fault_active
    THEN [ p |-> [p EXCEPT !.state = STOPPED],
           motor_cmd |-> FALSE, alarm |-> TRUE ]
    ELSE [ p |-> p, motor_cmd |-> FALSE, alarm |-> TRUE ]

StateMachine(p, start_cmd, fault_active, safe_to_run, stop_falling, hmi_stop, mode_manual, jog_fwd, dt) ==
    CASE p.state = STOPPED -> StoppedBranch(p, start_cmd)
      [] p.state = STARTING -> StartingBranch(p, fault_active, safe_to_run, dt)
      [] p.state = RUNNING ->
           RunningBranch(p, fault_active, safe_to_run, stop_falling, hmi_stop,
                         mode_manual, jog_fwd)
      [] p.state = FAULT -> FaultBranch(p, fault_active)

\* a faulty reject rule, used to show C10 depends on the reject period:
\* every second box is a reject
RejectNextEven(box_counter) == box_counter % 2 = 0

\* 4. DIVERTER: which box is the next reject
RejectNext(box_counter) == box_counter % RejectEvery = 0

\* a faulty diverter, used to show C27 depends on the state and mode test:
\* a locked diverter keeps its output in every state and mode
DiverterAnyState(p, pe, mode_manual) ==
    LET infeed_rising == Rising(pe.infeed, p.prev_infeed_pe)
        diverter_rising == Rising(pe.diverter, p.prev_diverter_pe)
        diverter_falling == Falling(pe.diverter, p.prev_diverter_pe)
    IN  IF p.state = RUNNING /\ ~mode_manual
        THEN LET p1 == IF infeed_rising
                       THEN [p EXCEPT !.box_counter = @ + 1,
                                      !.reject_next = RejectNext(p.box_counter + 1)]
                       ELSE p
                 p2 == IF diverter_rising
                       THEN [p1 EXCEPT !.diverter_locked = TRUE]
                       ELSE p1
                 out2 == IF diverter_rising \/ p2.diverter_locked
                         THEN p2.reject_next ELSE FALSE
             IN  IF diverter_falling /\ p2.diverter_locked
                 THEN [ p |-> [p2 EXCEPT !.diverter_locked = FALSE,
                                         !.reject_next = FALSE],
                        diverter_out |-> FALSE ]
                 ELSE [ p |-> p2, diverter_out |-> out2 ]
        ELSE [ p |-> p, diverter_out |-> p.diverter_locked /\ p.reject_next ]

\* 4. DIVERTER (auto mode, running only)
Diverter(p, pe, mode_manual) ==
    LET infeed_rising == Rising(pe.infeed, p.prev_infeed_pe)
        diverter_rising == Rising(pe.diverter, p.prev_diverter_pe)
        diverter_falling == Falling(pe.diverter, p.prev_diverter_pe)
    IN  IF p.state = RUNNING /\ ~mode_manual
        THEN LET p1 == IF infeed_rising
                       THEN [p EXCEPT !.box_counter = @ + 1,
                                      !.reject_next = RejectNext(p.box_counter + 1)]
                       ELSE p
                 p2 == IF diverter_rising
                       THEN [p1 EXCEPT !.diverter_locked = TRUE]
                       ELSE p1
                 out2 == IF diverter_rising \/ p2.diverter_locked
                         THEN p2.reject_next ELSE FALSE
             IN  IF diverter_falling /\ p2.diverter_locked
                 THEN [ p |-> [p2 EXCEPT !.diverter_locked = FALSE,
                                         !.reject_next = FALSE],
                        diverter_out |-> FALSE ]
                 ELSE [ p |-> p2, diverter_out |-> out2 ]
        ELSE [ p |-> p, diverter_out |-> FALSE ]

\* faulty metrics, used to show C11 depends on where the count is taken: a
\* box is counted when its cycle starts at the infeed photoeye
MetricsCountAtInfeed(p, pe, dt) ==
    LET outfeed_b_rising == Rising(pe.outfeed_b, p.prev_outfeed_b)
        outfeed_c_rising == Rising(pe.outfeed_c, p.prev_outfeed_c)
        infeed_rising_m == Rising(pe.infeed, p.prev_infeed_metrics)
        jam_rising == Rising(p.jam_latched, p.prev_jam_event)
        p1 == IF infeed_rising_m /\ ~p.cycle_active
              THEN [p EXCEPT !.cycle_active = TRUE, !.cycle_timer = 0,
                             !.metrics_box_count = @ + 1]
              ELSE p
        p2 == IF p1.cycle_active
              THEN [p1 EXCEPT !.cycle_timer = @ + dt] ELSE p1
        p3 == IF p2.cycle_active /\ (outfeed_b_rising \/ outfeed_c_rising)
              THEN [p2 EXCEPT !.last_cycle_time = p2.cycle_timer,
                              !.cycle_time_sum = @ + p2.cycle_timer,
                              !.cycle_active = FALSE, !.cycle_timer = 0]
              ELSE p2
    IN  IF jam_rising
        THEN [p3 EXCEPT !.metrics_jam_count = @ + 1]
        ELSE p3

\* faulty metrics, used to show C15 depends on the rising edge of the jam
\* latch: the jam count grows in every scan that finds the jam latched
MetricsJamLevel(p, pe, dt) ==
    LET outfeed_b_rising == Rising(pe.outfeed_b, p.prev_outfeed_b)
        outfeed_c_rising == Rising(pe.outfeed_c, p.prev_outfeed_c)
        infeed_rising_m == Rising(pe.infeed, p.prev_infeed_metrics)
        p1 == IF infeed_rising_m /\ ~p.cycle_active
              THEN [p EXCEPT !.cycle_active = TRUE, !.cycle_timer = 0]
              ELSE p
        p2 == IF p1.cycle_active
              THEN [p1 EXCEPT !.cycle_timer = @ + dt] ELSE p1
        p3 == IF p2.cycle_active /\ (outfeed_b_rising \/ outfeed_c_rising)
              THEN [p2 EXCEPT !.last_cycle_time = p2.cycle_timer,
                              !.metrics_box_count = @ + 1,
                              !.cycle_time_sum = @ + p2.cycle_timer,
                              !.cycle_active = FALSE, !.cycle_timer = 0]
              ELSE p2
    IN  IF p.jam_latched
        THEN [p3 EXCEPT !.metrics_jam_count = @ + 1]
        ELSE p3

\* 5. METRICS: the open cycle and its timer, the box count, the cycle time
\* recorded for a completed cycle, and the jam count
Metrics(p, pe, dt) ==
    LET outfeed_b_rising == Rising(pe.outfeed_b, p.prev_outfeed_b)
        outfeed_c_rising == Rising(pe.outfeed_c, p.prev_outfeed_c)
        infeed_rising_m == Rising(pe.infeed, p.prev_infeed_metrics)
        jam_rising == Rising(p.jam_latched, p.prev_jam_event)
        p1 == IF infeed_rising_m /\ ~p.cycle_active
              THEN [p EXCEPT !.cycle_active = TRUE, !.cycle_timer = 0]
              ELSE p
        p2 == IF p1.cycle_active
              THEN [p1 EXCEPT !.cycle_timer = @ + dt] ELSE p1
        p3 == IF p2.cycle_active /\ (outfeed_b_rising \/ outfeed_c_rising)
              THEN [p2 EXCEPT !.last_cycle_time = p2.cycle_timer,
                              !.metrics_box_count = @ + 1,
                              !.cycle_time_sum = @ + p2.cycle_timer,
                              !.cycle_active = FALSE, !.cycle_timer = 0]
              ELSE p2
    IN  IF jam_rising
        THEN [p3 EXCEPT !.metrics_jam_count = @ + 1]
        ELSE p3

\* 6. SAFETY-GATED MOTOR OUTPUT
MotorGate(motor_cmd, estop, estop_latched, stop_pb) ==
    motor_cmd /\ estop /\ ~estop_latched /\ stop_pb

\* save previous states
SavePrev(p, start_pb, stop_pb, estop, fault_clear, pe) ==
    [p EXCEPT !.prev_start = start_pb, !.prev_stop = stop_pb,
              !.prev_estop = estop, !.prev_fault_clear = fault_clear,
              !.prev_infeed_pe = pe.infeed, !.prev_diverter_pe = pe.diverter,
              !.prev_outfeed_b = pe.outfeed_b, !.prev_outfeed_c = pe.outfeed_c,
              !.prev_infeed_metrics = pe.infeed,
              !.prev_jam_event = p.jam_latched]

\* a faulty consume, used to show C24 depends on every one-shot being
\* cleared: the fault-clear command is left set
ConsumeOneShotsKeepClear(t) ==
    [t EXCEPT !.bHMI_Start = FALSE, !.bHMI_Stop = FALSE]

\* consume one-shot HMI commands
ConsumeOneShots(t) ==
    [t EXCEPT !.bHMI_Start = FALSE, !.bHMI_Stop = FALSE,
              !.bHMI_FaultClear = FALSE]

\* 7. WRITE OUTPUTS
WriteOutputs(t, p, motor_output, diverter_out, alarm) ==
    [t EXCEPT !.bConveyorMotor = motor_output,
              !.bDiverterActuator = diverter_out,
              !.bAlarmBuzzer = alarm,
              !.iHMI_State = p.state,
              !.sHMI_FaultMsg = FAULT_MESSAGES(p.fault_code),
              !.rHMI_BoxCount = p.metrics_box_count,
              !.rHMI_JamCount = p.metrics_jam_count]

\* LocalPLCLogic.scan(tags, dt): the control state and the tag table after
\* it, and the motor command of the state machine before the safety gate
Scan(p, t, dt) ==
    LET estop == t.bEStop
        stop_pb == t.bStopPB
        start_pb == t.bStartPB \/ t.bHMI_Start
        fault_clear == t.bHMI_FaultClear
        mode_manual == t.bModeSelector
        jog_fwd == t.bHMI_JogFwd
        pe == PEOf(t)
        jam_timeout == t.rJamTimeoutSec
        start_rising == Rising(start_pb, p.prev_start)
        stop_falling == Falling(stop_pb, p.prev_stop)
        clear_rising == Rising(fault_clear, p.prev_fault_clear)
        pS == SafetyUnlatch(SafetyLatch(p, estop), estop, clear_rising)
        safe_to_run == SafeToRun(pS, estop, stop_pb)
        start_cmd == start_rising /\ safe_to_run
        pJ == JamClear(JamDetection(pS, pe, dt, jam_timeout), pe, clear_rising)
        fault_active == FaultActive(pJ)
        sm == StateMachine(pJ, start_cmd, fault_active, safe_to_run,
                           stop_falling, t.bHMI_Stop, mode_manual, jog_fwd, dt)
        dv == Diverter(sm.p, pe, mode_manual)
        pM == Metrics(dv.p, pe, dt)
        motor_output == MotorGate(sm.motor_cmd, estop, pM.estop_latched, stop_pb)
    IN  [ plc |-> SavePrev(pM, start_pb, stop_pb, estop, fault_clear, pe),
          tags |-> ConsumeOneShots(
                       WriteOutputs(t, pM, motor_output, dv.diverter_out,
                                    sm.alarm)),
          motor_cmd |-> sm.motor_cmd ]

-----------------------------------------------------------------------------
(* ConveyorConfig (defaults), in mm and mm per 10 ms *)

InfeedPEPos == 0
DiverterPEPos == 1500
OutfeedBPos == 2500
OutfeedCPos == 2500
BeltSpeedMms == 5
BoxLengthMm == 200

\* MAX_PHYSICS_DT (0.05 s), the literal 0.05 added to the recovery timer and
\* passed to the two recovery scans, and the 3.0 s operator response time
MaxPhysicsDt == 5
RecoveryTick == 5
RecoveryDelay == 300

\* one hour and the one-second floor of the arrival interval, in 10 ms units
HourUnits == 360000
MinInterval == 100

\* next_arrival_time when the rate is <= 0 (float("inf"))
Never == -1

SitePos(loc) ==
    CASE loc = "infeed" -> InfeedPEPos
      [] loc = "diverter" -> DiverterPEPos
      [] loc = "outfeed_b" -> OutfeedBPos
      [] loc = "outfeed_c" -> OutfeedCPos
      [] OTHER -> InfeedPEPos

-----------------------------------------------------------------------------
(* ProcessSimulator *)

Max2(a, b) == IF a >= b THEN a ELSE b

\* main() without --seed (args.seed is None)
NoSeed == -1

\* the generator behind random.uniform: seeded by the operating system when
\* the module is imported, so its draws are any value of the range, until
\* random.seed(s) makes every later draw a function of s and of the number
\* of draws made since
RngEntropy == [seeded |-> FALSE, seed |-> NoSeed, n |-> 0]

RngSeeded(s) == [seeded |-> TRUE, seed |-> s, n |-> 0]

\* the element of the set of numbers S with k smaller elements
Pick(S, k) == CHOOSE x \in S : Cardinality({y \in S : y < x}) = k

\* the values a draw from S can return in generator state g
RandomDraw(g, S) ==
    IF g.seeded THEN {Pick(S, (g.seed + g.n) % Cardinality(S))} ELSE S

RngAfterDraw(g) == IF g.seeded THEN [g EXCEPT !.n = @ + 1] ELSE g

\* the history of a main() that has not run before
NoRuns(seed, scheduled) ==
    [ n |-> 0, sched |-> IF seed # NoSeed THEN <<scheduled>> ELSE <<>>,
      first_sched |-> <<>>, first_events |-> <<>> ]

\* _schedule_next_arrival: the intervals random.uniform can draw (the two ends
\* and the middle of the jitter range), floored at one second
ArrivalIntervals(cfg) ==
    LET interval == HourUnits \div cfg.rate
        jitter == (interval * cfg.jitter_pct) \div 100
    IN  { Max2(interval - jitter, MinInterval), Max2(interval, MinInterval),
          Max2(interval + jitter, MinInterval) }

NextArrivalTimes(cfg, now) ==
    IF cfg.rate <= 0 THEN {Never}
    ELSE {now + i : i \in ArrivalIntervals(cfg)}

\* _should_inject_jam: the outcomes of random.random() < prob
ShouldInjectJam(cfg) ==
    IF ~cfg.jams_enabled THEN {FALSE}
    ELSE IF cfg.jam_prob <= 0 THEN {FALSE}
    ELSE IF cfg.jam_prob >= 100 THEN {TRUE}
    ELSE {FALSE, TRUE}

\* _get_jam_location: drawn anew at every call when "random"
JamLocations(cfg) ==
    IF cfg.jam_location = "random" THEN SiteSet ELSE {cfg.jam_location}

\* a faulty detection, used to show C22 depends on the range test: a
\* photoeye sees a box only when the box centre stands exactly on it
OverlapsCentre(box, pos) == box.position_mm = pos

\* whether a box's body [position - len/2, position + len/2] covers a position
Overlaps(box, pos) ==
    /\ box.position_mm - BoxLengthMm \div 2 <= pos
    /\ pos <= box.position_mm + BoxLengthMm \div 2

\* _update_photoeyes: the four photoeye values for the active boxes
Photoeyes(boxes) ==
    [ infeed |-> \E i \in 1..Len(boxes) : Overlaps(boxes[i], InfeedPEPos),
      diverter |-> \E i \in 1..Len(boxes) : Overlaps(boxes[i], DiverterPEPos),
      outfeed_b |-> \E i \in 1..Len(boxes) :
                       ~boxes[i].is_reject /\ Overlaps(boxes[i], OutfeedBPos),
      outfeed_c |-> \E i \in 1..Len(boxes) :
                       boxes[i].is_reject /\ Overlaps(boxes[i], OutfeedCPos) ]

\* a faulty _generate_box, used to show C20 depends on the counter: from the
\* third box on, the id of the box before is given again
NewBoxReusedId(id, jammed, now) ==
    [ box_id |-> IF id > 2 THEN id - 1 ELSE id, position_mm |-> 0,
      state |-> "at_infeed", arrival_time |-> now, is_reject |-> FALSE,
      is_jammed |-> jammed, routed |-> FALSE ]

\* a faulty _generate_box, used to show C21 depends on the start position:
\* the box is put on the belt past the infeed photoeye
NewBoxMidBelt(id, jammed, now) ==
    [ box_id |-> id, position_mm |-> BoxLengthMm, state |-> "at_infeed",
      arrival_time |-> now, is_reject |-> FALSE, is_jammed |-> jammed,
      routed |-> FALSE ]

\* _generate_box
NewBox(id, jammed, now) ==
    [ box_id |-> id, position_mm |-> 0, state |-> "at_infeed",
      arrival_time |-> now, is_reject |-> FALSE, is_jammed |-> jammed,
      routed |-> FALSE ]

Event(kind, id) == [kind |-> kind, box_id |-> id]

\* the JAM event: its description names the location drawn for the box
JamEvent(id, jam_loc) == [kind |-> "JAM", box_id |-> id, jam_loc |-> jam_loc]

\* a faulty loop body, used to show C17 depends on the routing commit at the
\* diverter position itself: the commit waits until the box is past it
MoveBoxRouteLate(box, distance, diverter_extended, jam_loc) ==
    IF box.state = "jammed"
    THEN [ box |-> box, keep |-> TRUE, ev |-> <<>> ]
    ELSE IF box.is_jammed /\ box.position_mm >= SitePos(jam_loc)
    THEN [ box |-> [box EXCEPT !.state = "jammed"], keep |-> TRUE,
           ev |-> <<JamEvent(box.box_id, jam_loc)>> ]
    ELSE
      LET pos == box.position_mm + distance
          b1 == [box EXCEPT !.position_mm = pos]
      IN  IF pos >= OutfeedBPos /\ ~b1.is_reject
          THEN IF pos >= OutfeedBPos + BoxLengthMm
               THEN [ box |-> [b1 EXCEPT !.state = "completed"], keep |-> FALSE,
                      ev |-> <<Event("BOX_EXIT_B", box.box_id)>> ]
               ELSE [ box |-> [b1 EXCEPT !.state = "at_outfeed_b"],
                      keep |-> TRUE, ev |-> <<>> ]
          ELSE IF pos >= OutfeedCPos /\ b1.is_reject
          THEN IF pos >= OutfeedCPos + BoxLengthMm
               THEN [ box |-> [b1 EXCEPT !.state = "completed"], keep |-> FALSE,
                      ev |-> <<Event("BOX_EXIT_C", box.box_id)>> ]
               ELSE [ box |-> [b1 EXCEPT !.state = "at_outfeed_c"],
                      keep |-> TRUE, ev |-> <<>> ]
          ELSE IF pos >= DiverterPEPos
          THEN IF ~b1.routed /\ pos > DiverterPEPos
               THEN [ box |-> [b1 EXCEPT !.state = "at_diverter",
                                         !.is_reject = diverter_extended,
                                         !.routed = TRUE],
                      keep |-> TRUE, ev |-> <<>> ]
               ELSE [ box |-> [b1 EXCEPT !.state = "at_diverter"],
                      keep |-> TRUE, ev |-> <<>> ]
          ELSE IF pos >= InfeedPEPos
          THEN [ box |-> [b1 EXCEPT !.state = "at_infeed"], keep |-> TRUE,
                 ev |-> <<>> ]
          ELSE [ box |-> b1, keep |-> TRUE, ev |-> <<>> ]

\* a faulty loop body, used to show C18 depends on the routed guard: the
\* diverter is read again in every sub-step the box spends at the diverter
MoveBoxReroute(box, distance, diverter_extended, jam_loc) ==
    IF box.state = "jammed"
    THEN [ box |-> box, keep |-> TRUE, ev |-> <<>> ]
    ELSE IF box.is_jammed /\ box.position_mm >= SitePos(jam_loc)
    THEN [ box |-> [box EXCEPT !.state = "jammed"], keep |-> TRUE,
           ev |-> <<JamEvent(box.box_id, jam_loc)>> ]
    ELSE
      LET pos == box.position_mm + distance
          b1 == [box EXCEPT !.position_mm = pos]
      IN  IF pos >= OutfeedBPos /\ ~b1.is_reject
          THEN IF pos >= OutfeedBPos + BoxLengthMm
               THEN [ box |-> [b1 EXCEPT !.state = "completed"], keep |-> FALSE,
                      ev |-> <<Event("BOX_EXIT_B", box.box_id)>> ]
               ELSE [ box |-> [b1 EXCEPT !.state = "at_outfeed_b"],
                      keep |-> TRUE, ev |-> <<>> ]
          ELSE IF pos >= OutfeedCPos /\ b1.is_reject
          THEN IF pos >= OutfeedCPos + BoxLengthMm
               THEN [ box |-> [b1 EXCEPT !.state = "completed"], keep |-> FALSE,
                      ev |-> <<Event("BOX_EXIT_C", box.box_id)>> ]
               ELSE [ box |-> [b1 EXCEPT !.state = "at_outfeed_c"],
                      keep |-> TRUE, ev |-> <<>> ]
          ELSE IF pos >= DiverterPEPos
          THEN IF TRUE
               THEN [ box |-> [b1 EXCEPT !.state = "at_diverter",
                                         !.is_reject = diverter_extended,
                                         !.routed = TRUE],
                      keep |-> TRUE, ev |-> <<>> ]
               ELSE [ box |-> [b1 EXCEPT !.state = "at_diverter"],
                      keep |-> TRUE, ev |-> <<>> ]
          ELSE IF pos >= InfeedPEPos
          THEN [ box |-> [b1 EXCEPT !.state = "at_infeed"], keep |-> TRUE,
                 ev |-> <<>> ]
          ELSE [ box |-> b1, keep |-> TRUE, ev |-> <<>> ]

\* a faulty loop body, used to show C19 depends on the JAMMED test that
\* comes first: a JAMMED box is carried on by the belt
MoveBoxJammedCreeps(box, distance, diverter_extended, jam_loc) ==
    IF box.state = "jammed"
    THEN [ box |-> [box EXCEPT !.position_mm = @ + distance], keep |-> TRUE,
           ev |-> <<>> ]
    ELSE IF box.is_jammed /\ box.position_mm >= SitePos(jam_loc)
    THEN [ box |-> [box EXCEPT !.state = "jammed"], keep |-> TRUE,
           ev |-> <<JamEvent(box.box_id, jam_loc)>> ]
    ELSE
      LET pos == box.position_mm + distance
          b1 == [box EXCEPT !.position_mm = pos]
      IN  IF pos >= OutfeedBPos /\ ~b1.is_reject
          THEN IF pos >= OutfeedBPos + BoxLengthMm
               THEN [ box |-> [b1 EXCEPT !.state = "completed"], keep |-> FALSE,
                      ev |-> <<Event("BOX_EXIT_B", box.box_id)>> ]
               ELSE [ box |-> [b1 EXCEPT !.state = "at_outfeed_b"],
                      keep |-> TRUE, ev |-> <<>> ]
          ELSE IF pos >= OutfeedCPos /\ b1.is_reject
          THEN IF pos >= OutfeedCPos + BoxLengthMm
               THEN [ box |-> [b1 EXCEPT !.state = "completed"], keep |-> FALSE,
                      ev |-> <<Event("BOX_EXIT_C", box.box_id)>> ]
               ELSE [ box |-> [b1 EXCEPT !.state = "at_outfeed_c"],
                      keep |-> TRUE, ev |-> <<>> ]
          ELSE IF pos >= DiverterPEPos
          THEN IF ~b1.routed
               THEN [ box |-> [b1 EXCEPT !.state = "at_diverter",
                                         !.is_reject = diverter_extended,
                                         !.routed = TRUE],
                      keep |-> TRUE, ev |-> <<>> ]
               ELSE [ box |-> [b1 EXCEPT !.state = "at_diverter"],
                      keep |-> TRUE, ev |-> <<>> ]
          ELSE IF pos >= InfeedPEPos
          THEN [ box |-> [b1 EXCEPT !.state = "at_infeed"], keep |-> TRUE,
                 ev |-> <<>> ]
          ELSE [ box |-> b1, keep |-> TRUE, ev |-> <<>> ]

\* _move_boxes, body of the loop for one box: the box afterwards, whether it
\* stays in the active list, and the events logged
MoveBox(box, distance, diverter_extended, jam_loc) ==
    IF box.state = "jammed"
    THEN [ box |-> box, keep |-> TRUE, ev |-> <<>> ]
    ELSE IF box.is_jammed /\ box.position_mm >= SitePos(jam_loc)
    THEN [ box |-> [box EXCEPT !.state = "jammed"], keep |-> TRUE,
           ev |-> <<JamEvent(box.box_id, jam_loc)>> ]
    ELSE
      LET pos == box.position_mm + distance
          b1 == [box EXCEPT !.position_mm = pos]
      IN  IF pos >= OutfeedBPos /\ ~b1.is_reject
          THEN IF pos >= OutfeedBPos + BoxLengthMm
               THEN [ box |-> [b1 EXCEPT !.state = "completed"], keep |-> FALSE,
                      ev |-> <<Event("BOX_EXIT_B", box.box_id)>> ]
               ELSE [ box |-> [b1 EXCEPT !.state = "at_outfeed_b"],
                      keep |-> TRUE, ev |-> <<>> ]
          ELSE IF pos >= OutfeedCPos /\ b1.is_reject
          THEN IF pos >= OutfeedCPos + BoxLengthMm
               THEN [ box |-> [b1 EXCEPT !.state = "completed"], keep |-> FALSE,
                      ev |-> <<Event("BOX_EXIT_C", box.box_id)>> ]
               ELSE [ box |-> [b1 EXCEPT !.state = "at_outfeed_c"],
                      keep |-> TRUE, ev |-> <<>> ]
          ELSE IF pos >= DiverterPEPos
          THEN IF ~b1.routed
               THEN [ box |-> [b1 EXCEPT !.state = "at_diverter",
                                         !.is_reject = diverter_extended,
                                         !.routed = TRUE],
                      keep |-> TRUE, ev |-> <<>> ]
               ELSE [ box |-> [b1 EXCEPT !.state = "at_diverter"],
                      keep |-> TRUE, ev |-> <<>> ]
          ELSE IF pos >= InfeedPEPos
          THEN [ box |-> [b1 EXCEPT !.state = "at_infeed"], keep |-> TRUE,
                 ev |-> <<>> ]
          ELSE [ box |-> b1, keep |-> TRUE, ev |-> <<>> ]

\* the boxes whose jam location is drawn in this call of _move_boxes
JamCandidates(boxes) ==
    { boxes[i].box_id : i \in { j \in 1..Len(boxes) :
          boxes[j].is_jammed /\ boxes[j].state # "jammed" } }

\* _move_boxes: the active list and the events after the loop; draws gives the
\* jam location drawn for each candidate box
RECURSIVE MoveBoxes(_, _, _, _, _)
MoveBoxes(boxes, i, distance, diverter_extended, draws) ==
    IF i > Len(boxes) THEN [ boxes |-> <<>>, ev |-> <<>> ]
    ELSE LET b == boxes[i]
             loc == IF b.box_id \in DOMAIN draws THEN draws[b.box_id]
                    ELSE "infeed"
             m == MoveBox(b, distance, diverter_extended, loc)
             rest == MoveBoxes(boxes, i + 1, distance, diverter_extended, draws)
         IN  [ boxes |-> (IF m.keep THEN <<m.box>> ELSE <<>>) \o rest.boxes,
               ev |-> m.ev \o rest.ev ]

\* the active list without the JAMMED boxes, and the JAM_CLEARED events
RECURSIVE RemoveJammed(_, _)
RemoveJammed(boxes, i) ==
    IF i > Len(boxes) THEN [ boxes |-> <<>>, ev |-> <<>> ]
    ELSE LET rest == RemoveJammed(boxes, i + 1)
         IN  IF boxes[i].state = "jammed"
             THEN [ boxes |-> rest.boxes,
                    ev |-> <<Event("JAM_CLEARED", boxes[i].box_id)>> \o rest.ev ]
             ELSE [ boxes |-> <<boxes[i]>> \o rest.boxes, ev |-> rest.ev ]

\* _jam_recovery_timer >= 3.0 on the float the code accumulates: the timer is
\* a sum of n additions of 0.05, which in binary64 is 2.9999999999999973 for
\* n = 60 and 3.049999999999997 for n = 61, so the test first succeeds at the
\* 61st addition, that is when the exact sum exceeds 3.0
RecoveryReached(timer) == timer > RecoveryDelay

\* a faulty recovery, used to show C23 depends on the photoeye update after
\* the removal: the extra scans start with the photoeyes of the sub-step
AutoRecoverJamsStalePE(p, t, boxes, rec, timer) ==
    LET rec1 == IF t.iHMI_State = FAULT /\ ~rec THEN TRUE ELSE rec
        timer1 == IF t.iHMI_State = FAULT /\ ~rec THEN 0 ELSE timer
        same == [ plc |-> p, tags |-> t, boxes |-> boxes, ev |-> <<>>,
                  mid |-> p.state, scans |-> <<>> ]
    IN  IF ~rec1
        THEN same @@ [ recovering |-> rec1, timer |-> timer1 ]
        ELSE IF ~RecoveryReached(timer1 + RecoveryTick)
        THEN same @@ [ recovering |-> TRUE, timer |-> timer1 + RecoveryTick ]
        ELSE LET rm == RemoveJammed(boxes, 1)
                 s1 == Scan(p, t, RecoveryTick)
                 s2 == Scan(s1.plc, WriteTag(s1.tags, "bHMI_FaultClear", TRUE),
                            RecoveryTick)
                 t3 == IF s2.tags.iHMI_State = STOPPED
                       THEN WriteTag(s2.tags, "bHMI_Start", TRUE)
                       ELSE s2.tags
             IN  [ plc |-> s2.plc, tags |-> t3, boxes |-> rm.boxes,
                   ev |-> rm.ev, mid |-> s1.plc.state,
                   scans |-> <<PEOf(t),
                               PEOf(s1.tags)>>,
                   recovering |-> FALSE, timer |-> 0 ]

\* _auto_recover_jams, called after the sub-step's scan
AutoRecoverJams(p, t, boxes, rec, timer) ==
    LET rec1 == IF t.iHMI_State = FAULT /\ ~rec THEN TRUE ELSE rec
        timer1 == IF t.iHMI_State = FAULT /\ ~rec THEN 0 ELSE timer
        same == [ plc |-> p, tags |-> t, boxes |-> boxes, ev |-> <<>>,
                  mid |-> p.state, scans |-> <<>> ]
    IN  IF ~rec1
        THEN same @@ [ recovering |-> rec1, timer |-> timer1 ]
        ELSE IF ~RecoveryReached(timer1 + RecoveryTick)
        THEN same @@ [ recovering |-> TRUE, timer |-> timer1 + RecoveryTick ]
        ELSE LET rm == RemoveJammed(boxes, 1)
                 s1 == Scan(p, WritePE(t, Photoeyes(rm.boxes)), RecoveryTick)
                 s2 == Scan(s1.plc, WriteTag(s1.tags, "bHMI_FaultClear", TRUE),
                            RecoveryTick)
                 t3 == IF s2.tags.iHMI_State = STOPPED
                       THEN WriteTag(s2.tags, "bHMI_Start", TRUE)
                       ELSE s2.tags
             IN  [ plc |-> s2.plc, tags |-> t3, boxes |-> rm.boxes,
                   ev |-> rm.ev, mid |-> s1.plc.state,
                   scans |-> <<PEOf(WritePE(t, Photoeyes(rm.boxes))),
                               PEOf(s1.tags)>>,
                   recovering |-> FALSE, timer |-> 0 ]

-----------------------------------------------------------------------------
(* Bounds of the model *)

\* the run() duration, in 10 ms units
MaxDuration == 3000

\* boxes generated in a run
MaxBoxes == 7

\* calls of OPCUAClient.write in the client harness
MaxWrites == 2

\* a seeded run: 6 s, at most three boxes
SeedRunDuration == 600
SeedRunBoxes == 3

\* counters of the control state in the scan harness
MaxCount == 1

\* the start timer in the scan harness
MaxTimer == 200

\* rJamTimeoutSec written for the scan harness (1.0 s)
HarnessJamTimeout == 100

\* runs with jams enabled: the run() duration, the boxes generated, and the
\* --jam-timeout override (1.5 s)
JamRunDuration == 1200

JamRunBoxes == 4

JamRunTimeout == 150

\* boxes generated in the run whose jam location is "random"
RandomRunBoxes == 1

\* runs with an operator at the e-stop: the run() duration and the boxes
\* generated
EStopRunDuration == 500

EStopRunBoxes == 2

-----------------------------------------------------------------------------
(* Configurations *)

BaseConfig ==
    [ profile |-> "sim", rate |-> 600, jitter_pct |-> 20,
      jams_enabled |-> FALSE, jam_prob |-> 0, jam_location |-> "random",
      step |-> MaxPhysicsDt, jam_timeout |-> 400, duration |-> MaxDuration,
      boxes |-> MaxBoxes, seed |-> NoSeed ]

\* jams disabled, auto mode: a dense and a sparse arrival rate, sub-steps of
\* 0.02 s and 0.05 s; and a rate that leaves one box on the belt at a time
RouteConfigs ==
    { [BaseConfig EXCEPT !.rate = r, !.step = st] :
        r \in {3600, 600}, st \in {2, MaxPhysicsDt} }
    \cup { [BaseConfig EXCEPT !.rate = 360] }

\* a run with jams enabled, auto mode, dense arrivals
JamConfig(pr, loc, st) ==
    [BaseConfig EXCEPT !.profile = "jam", !.rate = 3600,
                       !.jams_enabled = TRUE, !.jam_prob = pr,
                       !.jam_location = loc, !.step = st,
                       !.jam_timeout = JamRunTimeout,
                       !.duration = JamRunDuration,
                       !.boxes = JamRunBoxes]

\* every box jams, at each fixed site and at a site drawn at random; some
\* boxes jam at the diverter; sub-steps of 0.05 s and, once, of 0.02 s
JamConfigs ==
    { JamConfig(100, loc, MaxPhysicsDt) : loc \in {"infeed", "diverter"} }
    \cup { JamConfig(50, "diverter", MaxPhysicsDt),
           JamConfig(100, "diverter", 2),
           [JamConfig(100, "outfeed_b", MaxPhysicsDt)
               EXCEPT !.boxes = MaxBoxes],
           [JamConfig(100, "random", MaxPhysicsDt)
               EXCEPT !.boxes = RandomRunBoxes] }

\* the scan harness: which tags the environment writes between scans and
\* which photoeye patterns the scans see
HarnessProfiles == {"panel", "manual", "sensors", "infeed"}

HarnessConfigs ==
    { [BaseConfig EXCEPT !.profile = pr, !.jam_timeout = HarnessJamTimeout] :
        pr \in HarnessProfiles }

Writable(profile) ==
    CASE profile = "panel" ->
           {"bEStop", "bStopPB", "bStartPB", "bHMI_Start", "bHMI_FaultClear",
            "bHMI_Stop"}
      [] profile = "manual" ->
           {"bModeSelector", "bHMI_JogFwd", "bHMI_Start", "bHMI_FaultClear",
            "bEStop", "bStopPB"}
      [] profile = "sensors" ->
           {"bEStop", "bHMI_Start", "bHMI_FaultClear"}
      [] profile = "infeed" ->
           {"bHMI_Start", "bHMI_FaultClear"}
      [] profile = "divert" ->
           {"bModeSelector", "bEStop", "bHMI_Start", "bHMI_FaultClear"}
      [] OTHER -> {}

AllClear == [s \in SiteSet |-> FALSE]

PEPatterns(profile) ==
    CASE profile = "panel" -> {AllClear}
      [] profile = "manual" -> {AllClear}
      [] profile = "sensors" -> {pe \in [SiteSet -> BOOLEAN] : ~pe["infeed"]}
      [] profile = "infeed" ->
           {pe \in [SiteSet -> BOOLEAN] :
               ~pe["outfeed_b"] /\ ~pe["outfeed_c"]}
      [] profile = "divert" ->
           {pe \in [SiteSet -> BOOLEAN] :
               ~pe["outfeed_b"] /\ ~pe["outfeed_c"]}
      [] OTHER -> {}

\* dt handed to a harness scan: 0.5 s and 1.0 s
ScanDts(profile) ==
    IF profile \in {"sensors", "divert"} THEN {100} ELSE {50, 100}

\* the boxes counted at the infeed in a harness run: up to the first reject
\* in the diverter harness
BoxCounterCap(profile) ==
    IF profile = "divert" THEN RejectEvery ELSE MaxCount

\* the diverter harness: mode selector and e-stop written between scans,
\* infeed and diverter photoeyes in any pattern, default jam timeout
DivertConfigs == { [BaseConfig EXCEPT !.profile = "divert"] }

-----------------------------------------------------------------------------
(* The scan harness: tag writes and scans in any order *)

InitScan ==
    /\ config \in HarnessConfigs
    /\ plc = PlcInit
    /\ tags = WriteTag(TagDefaults, "rJamTimeoutSec", config.jam_timeout)
    /\ active_boxes = <<>>
    /\ sim_time = 0
    /\ next_box_id = 1
    /\ next_arrival_time = Never
    /\ recovering = FALSE
    /\ jam_recovery_timer = 0
    /\ events = <<>>
    /\ rng = RngEntropy
    /\ reply = NoReply
    /\ runs = NoRuns(NoSeed, Never)
    /\ pc = "scan"
    /\ last_op = "init"
    /\ pre = [ state |-> STOPPED, dt |-> 0, seen |-> Never, faults |-> 0,
              pe |-> PEOf(TagDefaults), rpe |-> <<>> ]

\* OPCUAClient.write(name, value) on an input or command tag
Write(name, value) ==
    /\ pc = "scan"
    /\ name \in Writable(config.profile)
    /\ tags[name] # value
    /\ tags' = WriteTag(tags, name, value)
    /\ last_op' = "write"
    /\ UNCHANGED <<plc, pre, config, pc>>
    /\ UNCHANGED simVars

\* the photoeyes are written and LocalPLCLogic.scan runs; the harness does
\* not follow the cycle times, which grow for as long as a cycle is open
ScanStep(pe, dt) ==
    /\ pc = "scan"
    /\ \E s \in {Scan(plc, WritePE(tags, pe), dt)} :
           /\ s.plc.start_timer <= MaxTimer
           /\ s.plc.box_counter <= BoxCounterCap(config.profile)
           /\ s.plc.metrics_box_count <= MaxCount
           /\ s.plc.metrics_jam_count <= MaxCount
           /\ plc' = [s.plc EXCEPT !.cycle_timer = 0, !.cycle_time_sum = 0,
                                   !.last_cycle_time = 0]
           /\ tags' = s.tags
    /\ pre' = [ state |-> plc.state, dt |-> dt, seen |-> Never, faults |-> 0,
               pe |-> PEOf(WritePE(tags, pe)), rpe |-> <<>> ]
    /\ last_op' = "scan"
    /\ UNCHANGED <<config, pc>>
    /\ UNCHANGED simVars

NextScan ==
    \/ \E name \in TagNames, value \in BOOLEAN : Write(name, value)
    \/ \E pe \in PEPatterns(config.profile), dt \in ScanDts(config.profile) :
           ScanStep(pe, dt)

SpecScan == InitScan /\ [][NextScan]_vars

\* the client harness: any tag written and read between scans
ClientConfigs == { [BaseConfig EXCEPT !.profile = "client"] }

InitClient ==
    /\ config \in ClientConfigs
    /\ plc = PlcInit
    /\ tags = TagDefaults
    /\ active_boxes = <<>>
    /\ sim_time = 0
    /\ next_box_id = 1
    /\ next_arrival_time = Never
    /\ recovering = FALSE
    /\ jam_recovery_timer = 0
    /\ events = <<>>
    /\ rng = RngEntropy
    /\ reply = NoReply
    /\ runs = NoRuns(NoSeed, Never)
    /\ pc = "scan"
    /\ last_op = "init"
    /\ pre = [ state |-> STOPPED, dt |-> 0, seen |-> Never, faults |-> 0,
              pe |-> PEOf(TagDefaults), rpe |-> <<>> ]

\* a call of OPCUAClient.write(name, value)
WriteCall(name, value) ==
    /\ pc = "scan"
    /\ reply.writes < MaxWrites
    /\ \E w \in {ClientWrite(tags, name, value)} :
           /\ tags' = w.tags
           /\ reply' = [ op |-> "write", name |-> name, value |-> value,
                         error |-> w.error, writes |-> reply.writes + 1 ]
    /\ last_op' = "write"
    /\ UNCHANGED <<plc, pre, config, pc>>
    /\ UNCHANGED <<active_boxes, sim_time, next_box_id, next_arrival_time,
                   recovering, jam_recovery_timer, events, rng, runs>>

\* a call of OPCUAClient.read(name)
ReadCall(name) ==
    /\ pc = "scan"
    /\ \E r \in {ClientRead(tags, name)} :
           reply' = [ op |-> "read", name |-> name, value |-> r.value,
                      error |-> r.error, writes |-> reply.writes ]
    /\ last_op' = "read"
    /\ UNCHANGED <<plc, tags, pre, config, pc>>
    /\ UNCHANGED <<active_boxes, sim_time, next_box_id, next_arrival_time,
                   recovering, jam_recovery_timer, events, rng, runs>>

NextClient ==
    \/ \E name \in TagNames \cup UnknownNames :
          \E value \in TagValues(name) : WriteCall(name, value)
    \/ \E name \in TagNames \cup UnknownNames : ReadCall(name)
    \/ ScanStep(AllClear, 100)

SpecClient == InitClient /\ [][NextClient]_vars

\* the scan harness started for the diverter
InitDivert ==
    /\ config \in DivertConfigs
    /\ plc = PlcInit
    /\ tags = WriteTag(TagDefaults, "rJamTimeoutSec", config.jam_timeout)
    /\ active_boxes = <<>>
    /\ sim_time = 0
    /\ next_box_id = 1
    /\ next_arrival_time = Never
    /\ recovering = FALSE
    /\ jam_recovery_timer = 0
    /\ events = <<>>
    /\ rng = RngEntropy
    /\ reply = NoReply
    /\ runs = NoRuns(NoSeed, Never)
    /\ pc = "scan"
    /\ last_op = "init"
    /\ pre = [ state |-> STOPPED, dt |-> 0, seen |-> Never, faults |-> 0,
              pe |-> PEOf(TagDefaults), rpe |-> <<>> ]

SpecDivert == InitDivert /\ [][NextScan]_vars

-----------------------------------------------------------------------------
(* The simulator run: main() / run(), one action per sub-step of update() *)

InitSim(configs) ==
    /\ config \in configs
    /\ plc = PlcInit
    /\ tags = TagDefaults
    /\ active_boxes = <<>>
    /\ sim_time = 0
    /\ next_box_id = 1
    /\ next_arrival_time \in NextArrivalTimes(config, 0)
    /\ recovering = FALSE
    /\ jam_recovery_timer = 0
    /\ events = <<>>
    /\ rng = RngEntropy
    /\ reply = NoReply
    /\ runs = NoRuns(config.seed, next_arrival_time)
    /\ pc = "constructed"
    /\ last_op = "init"
    /\ pre = [ state |-> STOPPED, dt |-> 0, seen |-> Never, faults |-> 0,
              pe |-> PEOf(TagDefaults), rpe |-> <<>> ]

\* initialize(): the safe input defaults; main() then writes --jam-timeout
Initialize ==
    /\ pc = "constructed"
    /\ config.seed # NoSeed => rng.seeded
    /\ tags' = [tags EXCEPT !.bEStop = TRUE, !.bStopPB = TRUE,
                            !.bStartPB = FALSE, !.bModeSelector = FALSE,
                            !.bInfeedPE = FALSE, !.bDiverterPE = FALSE,
                            !.bOutfeedBPE = FALSE, !.bOutfeedCPE = FALSE,
                            !.rJamTimeoutSec = config.jam_timeout]
    /\ pc' = "initialized"
    /\ last_op' = "initialize"
    /\ UNCHANGED <<plc, pre, config>>
    /\ UNCHANGED simVars

\* run(): start_system() before the loop
RunStart ==
    /\ pc = "initialized"
    /\ tags' = WriteTag(tags, "bHMI_Start", TRUE)
    /\ pc' = "running"
    /\ last_op' = "start"
    /\ UNCHANGED <<plc, pre, config>>
    /\ UNCHANGED simVars

\* 1 if a scan took the control state into FAULT, else 0
FaultEntry(before, after) == IF before # FAULT /\ after = FAULT THEN 1 ELSE 0

\* one sub-step of update(): photoeyes, scan, operator recovery, actuators,
\* arrivals, motion
UpdateStep ==
    /\ pc = "running"
    /\ sim_time < config.duration
    /\ LET now == sim_time + config.step
           due == next_arrival_time # Never /\ now >= next_arrival_time
       IN
       \E sc \in {Scan(plc, WritePE(tags, Photoeyes(active_boxes)), config.step)} :
       \E ar \in {AutoRecoverJams(sc.plc, sc.tags, active_boxes, recovering,
                                  jam_recovery_timer)} :
       \E jammed \in (IF due /\ ar.tags.iHMI_State = RUNNING
                      THEN ShouldInjectJam(config) ELSE {FALSE}) :
       \E draws \in [JamCandidates(ar.boxes) \cup {next_box_id}
                        -> JamLocations(config)] :
         LET motor_on == ar.tags.bConveyorMotor
             diverter_extended == ar.tags.bDiverterActuator
             speed_setpoint == ar.tags.rConveyorSpeed
             generate == due /\ ar.tags.iHMI_State = RUNNING
             boxes1 == IF generate
                       THEN Append(ar.boxes, NewBox(next_box_id, jammed, now))
                       ELSE ar.boxes
             ev1 == IF generate
                    THEN <<Event("BOX_ARRIVAL", next_box_id)>> ELSE <<>>
             mv == IF motor_on
                   THEN MoveBoxes(boxes1, 1,
                                  BeltSpeedMms * speed_setpoint * config.step,
                                  diverter_extended, draws)
                   ELSE [ boxes |-> boxes1, ev |-> <<>> ]
         IN  /\ generate => next_box_id <= config.boxes
             /\ sim_time' = now
             /\ plc' = ar.plc
             /\ tags' = ar.tags
             /\ recovering' = ar.recovering
             /\ jam_recovery_timer' = ar.timer
             /\ next_box_id' = IF generate THEN next_box_id + 1 ELSE next_box_id
             /\ IF due
                THEN /\ next_arrival_time'
                          \in RandomDraw(rng, NextArrivalTimes(config, now))
                     /\ rng' = IF config.rate > 0
                               THEN RngAfterDraw(rng) ELSE rng
                ELSE /\ next_arrival_time' = next_arrival_time
                     /\ rng' = rng
             /\ runs' = IF due /\ config.seed # NoSeed
                         THEN [runs EXCEPT
                                 !.sched = Append(@, next_arrival_time')]
                         ELSE runs
             /\ active_boxes' = mv.boxes
             /\ events' = events \o ar.ev \o ev1 \o mv.ev
             /\ pre' = [ state |-> plc.state, dt |-> config.step,
                         seen |-> IF sc.tags.iHMI_State = FAULT /\ ~recovering
                                  THEN now ELSE pre.seen,
                         faults |-> pre.faults
                                    + FaultEntry(plc.state, sc.plc.state)
                                    + FaultEntry(sc.plc.state, ar.mid)
                                    + FaultEntry(ar.mid, ar.plc.state),
                         pe |-> PEOf(WritePE(tags, Photoeyes(active_boxes))),
                         rpe |-> ar.scans ]
    /\ last_op' = "update"
    /\ UNCHANGED <<config, pc, reply>>

\* _finalize(): stop_system() once the duration is reached
Finalize ==
    /\ pc = "running"
    /\ sim_time >= config.duration
    /\ tags' = WriteTag(tags, "bHMI_Stop", TRUE)
    /\ pc' = "finalized"
    /\ last_op' = "finalize"
    /\ UNCHANGED <<plc, pre, config>>
    /\ UNCHANGED simVars

NextSim ==
    \/ Initialize
    \/ RunStart
    \/ UpdateStep
    \/ Finalize

\* runs with jams disabled in auto mode
SpecRoute == InitSim(RouteConfigs) /\ [][NextSim]_vars

\* main(): random.seed(args.seed), after the simulator is constructed and
\* before initialize()
Seed ==
    /\ pc = "constructed"
    /\ config.seed # NoSeed
    /\ ~rng.seeded
    /\ rng' = RngSeeded(config.seed)
    /\ last_op' = "seed"
    /\ UNCHANGED <<plc, tags, pre, config, pc, runs, reply>>
    /\ UNCHANGED <<active_boxes, sim_time, next_box_id, next_arrival_time,
                   recovering, jam_recovery_timer, events>>

\* main() started a second time with the same arguments: a new process, a
\* new generator, a new simulator whose constructor schedules the first box
Restart ==
    /\ pc = "finalized"
    /\ config.seed # NoSeed
    /\ runs.n = 0
    /\ plc' = PlcInit
    /\ tags' = TagDefaults
    /\ active_boxes' = <<>>
    /\ sim_time' = 0
    /\ next_box_id' = 1
    /\ next_arrival_time' \in NextArrivalTimes(config, 0)
    /\ recovering' = FALSE
    /\ jam_recovery_timer' = 0
    /\ events' = <<>>
    /\ rng' = RngEntropy
    /\ reply' = NoReply
    /\ runs' = [ n |-> 1, sched |-> <<next_arrival_time'>>,
                 first_sched |-> runs.sched, first_events |-> events ]
    /\ pc' = "constructed"
    /\ last_op' = "init"
    /\ pre' = [ state |-> STOPPED, dt |-> 0, seen |-> Never, faults |-> 0,
               pe |-> PEOf(TagDefaults), rpe |-> <<>> ]
    /\ UNCHANGED config

\* the seeds given to --seed
Seeds == {1, 2}

\* seeded runs: jams disabled (so _should_inject_jam and _get_jam_location
\* return before drawing), arrivals every 2 s with 20 % jitter
SeedConfigs ==
    { [BaseConfig EXCEPT !.profile = "seed", !.rate = 1800,
                         !.duration = SeedRunDuration,
                         !.boxes = SeedRunBoxes, !.seed = s] : s \in Seeds }

NextSeed ==
    \/ Initialize
    \/ Seed
    \/ RunStart
    \/ UpdateStep
    \/ Finalize
    \/ Restart

\* main() run twice with the same --seed and configuration
SpecSeed == InitSim(SeedConfigs) /\ [][NextSeed]_vars

\* runs with jams enabled in auto mode, the e-stop healthy throughout
SpecJam == InitSim(JamConfigs) /\ [][NextSim]_vars

\* the e-stop input written between two update() calls of a run: the
\* mushroom button pressed (bEStop = false) and released (bEStop = true)
PressEStop ==
    /\ pc = "running"
    /\ tags.bEStop
    /\ tags' = WriteTag(tags, "bEStop", FALSE)
    /\ last_op' = "write"
    /\ UNCHANGED <<plc, pre, config, pc>>
    /\ UNCHANGED simVars

ReleaseEStop ==
    /\ pc = "running"
    /\ ~tags.bEStop
    /\ tags' = WriteTag(tags, "bEStop", TRUE)
    /\ last_op' = "write"
    /\ UNCHANGED <<plc, pre, config, pc>>
    /\ UNCHANGED simVars

EStopConfigs ==
    { [BaseConfig EXCEPT !.profile = "estop", !.rate = 3600,
                         !.duration = EStopRunDuration,
                         !.boxes = EStopRunBoxes] }

NextEStop ==
    \/ Initialize
    \/ RunStart
    \/ UpdateStep
    \/ Finalize
    \/ PressEStop
    \/ ReleaseEStop

\* runs with jams disabled and the e-stop pressed and released at any time
SpecEStop == InitSim(EStopConfigs) /\ [][NextEStop]_vars

-----------------------------------------------------------------------------
(* What a scan reads.  In a step of ScanStep the unprimed tags hold the      *)
(* command and input tags the scan reads, the primed tags the photoeyes it   *)
(* reads and the outputs it writes; plc is the control state before the      *)
(* scan and plc' the control state after it.                                 *)

StartRisingRead == (tags.bStartPB \/ tags.bHMI_Start) /\ ~plc.prev_start

StopFallingRead == plc.prev_stop /\ ~tags.bStopPB

ClearRisingRead == tags.bHMI_FaultClear /\ ~plc.prev_fault_clear

\* the safety chain as the tags and latches show it after a scan
SafetyChainClear ==
    tags.bEStop /\ tags.bStopPB /\ ~plc.estop_latched /\ ~plc.jam_latched

-----------------------------------------------------------------------------
(* Properties of the scan, under SpecScan *)

\* C1: after every scan bConveyorMotor is true only if the scan began in
\* RUNNING, ended with iHMI_State = 2, read bEStop and bStopPB true and left
\* neither latch set; the motor is never on in STOPPED, STARTING or FAULT.
C1_MotorOnlyInRunning ==
    /\ tags.bConveyorMotor => plc.state = RUNNING
    /\ (last_op = "scan" /\ tags.bConveyorMotor) =>
           /\ pre.state = RUNNING
           /\ tags.iHMI_State = RUNNING
           /\ tags.bEStop /\ tags.bStopPB
           /\ ~plc.estop_latched /\ ~plc.jam_latched

\* the motor is on after a scan
C1_Witness == last_op = "scan" /\ tags.bConveyorMotor

\* C2 (as the code has it): after a scan that ends in RUNNING in auto mode
\* the safety chain is clear, and the motor is on exactly if the scan also
\* began in RUNNING; after the scan that performs STARTING -> RUNNING the
\* motor is still off.
C2_MotorFollowsSafetyAfterEntry ==
    (last_op = "scan" /\ tags.iHMI_State = RUNNING /\ ~tags.bModeSelector) =>
        /\ SafetyChainClear
        /\ tags.bConveyorMotor <=> pre.state = RUNNING

\* C2 as stated: in RUNNING and auto mode after a scan, the motor is on
\* exactly if the safety chain is clear, the scan entering RUNNING included.
C2_AsStated ==
    (last_op = "scan" /\ tags.iHMI_State = RUNNING /\ ~tags.bModeSelector) =>
        (tags.bConveyorMotor <=> SafetyChainClear)

\* the scan that entered RUNNING, and a later scan with the motor on
C2_Witness ==
    /\ last_op = "scan" /\ tags.iHMI_State = RUNNING /\ ~tags.bModeSelector
    /\ pre.state = STARTING /\ ~tags.bConveyorMotor /\ SafetyChainClear

\* C3 (as the code has it): a scan that reads bEStop = false latches the
\* e-stop and leaves the motor off; begun in STARTING, RUNNING or FAULT it
\* ends in FAULT, begun in STOPPED it ends in STOPPED.
C3_EStopFaultsUnlessStopped ==
    (last_op = "scan" /\ ~tags.bEStop) =>
        /\ plc.estop_latched
        /\ ~tags.bConveyorMotor
        /\ pre.state # STOPPED => tags.iHMI_State = FAULT
        /\ pre.state = STOPPED => tags.iHMI_State = STOPPED

\* C3 as stated: a scan that reads bEStop = false ends in FAULT with the
\* motor off, from every state.
C3_AsStated ==
    (last_op = "scan" /\ ~tags.bEStop) =>
        (tags.iHMI_State = FAULT /\ ~tags.bConveyorMotor)

\* the e-stop opened while RUNNING, and the scan ended in FAULT
C3_Witness ==
    /\ last_op = "scan" /\ ~tags.bEStop
    /\ pre.state = RUNNING /\ tags.iHMI_State = FAULT

\* C4: a set estop_latched stays set in every step except a scan that reads
\* a rising edge of bHMI_FaultClear with bEStop = true; FAULT with the e-stop
\* latched is not left otherwise.
C4_EStopLatchHolds ==
    [][ plc.estop_latched =>
          /\ ~plc'.estop_latched =>
                (last_op' = "scan" /\ ClearRisingRead /\ tags.bEStop)
          /\ (plc.state = FAULT /\ plc'.state # FAULT) =>
                (last_op' = "scan" /\ ClearRisingRead /\ tags.bEStop)
      ]_vars

\* an e-stop fault (no jam so far) was cleared by the last scan
C4_Witness ==
    /\ last_op = "scan" /\ pre.state = FAULT /\ plc.state = STOPPED
    /\ plc.prev_fault_clear /\ plc.prev_estop
    /\ ~plc.estop_latched /\ plc.metrics_jam_count = 0

\* C5: the control state changes only in a scan, only along the six listed
\* transitions, each only under its guard.
C5_OnlyListedTransitions ==
    [][ plc'.state # plc.state =>
          /\ last_op' = "scan"
          /\ LET fault_active == plc'.estop_latched \/ plc'.jam_latched
                 safe_to_run == /\ tags.bEStop /\ tags.bStopPB
                                /\ ~plc'.estop_latched /\ ~plc'.jam_latched
             IN  \/ /\ plc.state = STOPPED /\ plc'.state = STARTING
                    /\ StartRisingRead /\ safe_to_run
                 \/ /\ plc.state = STARTING /\ plc'.state = FAULT
                    /\ fault_active
                 \/ /\ plc.state = STARTING /\ plc'.state = RUNNING
                    /\ plc'.start_timer >= StartDelay
                    /\ safe_to_run /\ ~fault_active
                 \/ /\ plc.state = RUNNING /\ plc'.state = FAULT
                    /\ fault_active
                 \/ /\ plc.state = RUNNING /\ plc'.state = STOPPED
                    /\ StopFallingRead \/ tags.bHMI_Stop
                    /\ ~fault_active
                 \/ /\ plc.state = FAULT /\ plc'.state = STOPPED
                    /\ ~fault_active
      ]_vars

\* the last scan took RUNNING -> STOPPED
C5_Witness ==
    last_op = "scan" /\ pre.state = RUNNING /\ plc.state = STOPPED

\* C6: with bEStop and bStopPB true and no latch set, a scan in STOPPED that
\* reads a rising edge of start ends in STARTING with the start timer at 0;
\* a scan in STARTING adds its dt to the start timer and ends in RUNNING
\* exactly if the timer has reached 1.0 s, whatever the photoeyes read.
C6_StartSequence ==
    [][ (/\ last_op' = "scan"
         /\ tags.bEStop /\ tags.bStopPB
         /\ ~plc.estop_latched /\ ~plc.jam_latched) =>
          /\ (plc.state = STOPPED /\ StartRisingRead) =>
                /\ plc'.state = STARTING
                /\ plc'.start_timer = 0
          /\ plc.state = STARTING =>
                /\ plc'.start_timer = plc.start_timer + pre'.dt
                /\ plc'.state = IF plc'.start_timer >= StartDelay
                                THEN RUNNING ELSE STARTING
      ]_vars

\* RUNNING was entered from STARTING by a scan that read a blocked photoeye
C6_Witness ==
    /\ last_op = "scan" /\ pre.state = STARTING /\ plc.state = RUNNING
    /\ plc.start_timer >= StartDelay
    /\ tags.bInfeedPE /\ tags.bDiverterPE

\* the sites whose jam timer is at or above the timeout after the scan
ReachedSites == {s \in SiteSet : plc'.jam_timers[s] >= tags.rJamTimeoutSec}

\* the first of them in the order the scan visits the sites
FirstReached ==
    Sites[CHOOSE i \in 1..Len(Sites) :
              /\ Sites[i] \in ReachedSites
              /\ \A j \in 1..(i - 1) : Sites[j] \notin ReachedSites]

\* C7 (as the code has it): when a scan that begins in RUNNING with no jam
\* latched brings the jam timer of one or more sites to the timeout, it ends
\* in FAULT with the jam latched at the first such site in the order infeed,
\* diverter, outfeed_b, outfeed_c, and with that site's fault code and
\* message, also when the e-stop trips in the same scan.
C7_JamFaultsAtFirstSite ==
    [][ (/\ last_op' = "scan"
         /\ plc.state = RUNNING /\ ~plc.jam_latched
         /\ ReachedSites # {}) =>
          /\ tags'.iHMI_State = FAULT
          /\ ~tags'.bConveyorMotor
          /\ plc'.jam_latched
          /\ plc'.jam_location = FirstReached
          /\ plc'.fault_code = SiteFaultCode(FirstReached)
          /\ tags'.sHMI_FaultMsg = FAULT_MESSAGES(SiteFaultCode(FirstReached))
      ]_vars

\* C7 as stated: the scan ends in FAULT with the fault code and message of
\* every site whose jam timer reached the timeout in it.
C7_AsStated ==
    [][ (/\ last_op' = "scan"
         /\ plc.state = RUNNING /\ ~plc.jam_latched) =>
          \A s \in ReachedSites :
              /\ tags'.iHMI_State = FAULT
              /\ plc'.fault_code = SiteFaultCode(s)
              /\ tags'.sHMI_FaultMsg = FAULT_MESSAGES(SiteFaultCode(s))
      ]_vars

\* two sites reached the timeout and the e-stop opened in the same scan
C7_Witness ==
    /\ last_op = "scan" /\ pre.state = RUNNING /\ plc.state = FAULT
    /\ plc.jam_latched /\ plc.jam_location = "diverter"
    /\ plc.jam_timers["diverter"] >= tags.rJamTimeoutSec
    /\ plc.jam_timers["outfeed_b"] >= tags.rJamTimeoutSec
    /\ ~tags.bEStop /\ plc.fault_code = JAM_DIVERTER

\* C8: a latched jam is cleared only by a scan that reads a rising edge of
\* bHMI_FaultClear, and such a scan clears it exactly if the photoeye of the
\* recorded jam location reads unblocked; otherwise the jam stays latched at
\* the same location and the state stays FAULT.
C8_JamClearNeedsClearPhotoeye ==
    [][ plc.jam_latched =>
          /\ plc.jam_location \in SiteSet
          /\ ~plc'.jam_latched <=>
                /\ last_op' = "scan"
                /\ ClearRisingRead
                /\ ~PEOf(tags')[plc.jam_location]
          /\ plc'.jam_latched =>
                /\ plc'.jam_location = plc.jam_location
                /\ plc'.state = FAULT
      ]_vars

\* a jam was cleared by the last scan while another photoeye was blocked
C8_Witness ==
    /\ last_op = "scan" /\ pre.state = FAULT
    /\ plc.metrics_jam_count > 0 /\ ~plc.jam_latched
    /\ plc.prev_fault_clear
    /\ tags.bDiverterPE /\ ~tags.bOutfeedBPE

-----------------------------------------------------------------------------
(* Properties of the routing, under SpecRoute *)

\* the number of events of a kind logged so far
CountEvents(kind) ==
    Cardinality({i \in 1..Len(events) : events[i].kind = kind})

\* C9 as stated: every box committed at the diverter is a reject exactly if
\* its number in generation order is a multiple of 3.
C9_AsStated ==
    \A i \in 1..Len(active_boxes) :
        active_boxes[i].routed =>
            (active_boxes[i].is_reject <=>
                active_boxes[i].box_id % RejectEvery = 0)

\* C10 (as the code has it): with arrivals at least 4.8 s apart (600 boxes
\* per hour, 20 % jitter) there are two exits at B for every exit at C: at
\* every sub-step #BOX_EXIT_B - 2 * #BOX_EXIT_C is 0, 1 or 2.
C10_TwoBForEveryC ==
    config.rate = 600 =>
        /\ CountEvents("BOX_EXIT_B") - 2 * CountEvents("BOX_EXIT_C") >= 0
        /\ CountEvents("BOX_EXIT_B") - 2 * CountEvents("BOX_EXIT_C") <= 2

\* C10 as stated: the numbers of exits at B and at C never differ by more
\* than 1.
C10_AsStated ==
    /\ CountEvents("BOX_EXIT_B") - CountEvents("BOX_EXIT_C") <= 1
    /\ CountEvents("BOX_EXIT_C") - CountEvents("BOX_EXIT_B") <= 1

\* a full group of three has left the conveyor: two at B, then one at C
C10_Witness ==
    /\ config.rate = 600
    /\ CountEvents("BOX_EXIT_B") = 2 /\ CountEvents("BOX_EXIT_C") = 1

-----------------------------------------------------------------------------
(* Properties of the metrics and of the boxes in a run *)

\* the exit events logged so far
Exits == CountEvents("BOX_EXIT_B") + CountEvents("BOX_EXIT_C")

\* the active boxes that have reached the photoeye of their outfeed
AtOutfeed ==
    { i \in 1..Len(active_boxes) :
        active_boxes[i].position_mm + BoxLengthMm \div 2 >= OutfeedBPos }

RecoveryFires == recovering /\ ~recovering'

\* the active boxes in state JAMMED
JammedBoxes(boxes) == { i \in 1..Len(boxes) : boxes[i].state = "jammed" }

\* a jam fault no recovery can clear: the belt is stopped in FAULT, no box
\* is JAMMED, and a box that is not JAMMED covers the photoeye of the
\* latched site
Stuck ==
    /\ plc.state = FAULT /\ plc.jam_latched /\ ~plc.estop_latched
    /\ ~tags.bConveyorMotor
    /\ JammedBoxes(active_boxes) = {}
    /\ Photoeyes(active_boxes)[plc.jam_location]

\* C12 as stated, at the step that decides it: the recovery that fires for a
\* jam fault with the e-stop healthy removes the JAMMED boxes, clears the
\* jam latch and leaves the control state STOPPED with the start pulse
\* written, from where the scan goes on to STARTING and RUNNING.
C12_AsStated ==
    [][ (RecoveryFires /\ plc.jam_latched /\ tags.bEStop) =>
          /\ JammedBoxes(active_boxes') = {}
          /\ ~plc'.jam_latched
          /\ tags'.iHMI_State = STOPPED
          /\ tags'.bHMI_Start
      ]_vars

\* once the recovery has failed in this way, it fails for ever: the belt does
\* not move, no box is generated outside RUNNING, and every later recovery
\* finds the same photoeye blocked
C12_StuckForEver == [][ Stuck => Stuck' ]_vars

\* a jam fault the recovery could not clear
C12_StuckReached == last_op = "update" /\ Stuck /\ ~recovering

\* C13 as stated: while the control state is FAULT with no jam latched (a
\* fault caused by the e-stop alone) the operator recovery does not act: it
\* does not fire (so no bHMI_FaultClear pulse is written), no start pulse is
\* left written and the active list is not changed.
C13_AsStated ==
    [][ (plc.state = FAULT /\ ~plc.jam_latched) =>
          /\ ~RecoveryFires
          /\ ~tags'.bHMI_Start
          /\ active_boxes' = active_boxes
      ]_vars

\* C14 as stated: the operator recovery fires when 3.0 s of simulated time
\* have elapsed since FAULT was first observed, whatever the sub-step size.
C14_AsStated ==
    [][ RecoveryFires => sim_time' - pre.seen = RecoveryDelay ]_vars

\* what the code does: the recovery fires at the 61st sub-step that finds the
\* recovery pending, so 60 sub-steps after the one that first observed FAULT
C14_FiresAfterSixtySubSteps ==
    [][ RecoveryFires =>
          sim_time' - pre.seen = (RecoveryDelay \div RecoveryTick) * config.step
      ]_vars

\* C15: in a run where the e-stop stays healthy, after every sub-step
\* rHMI_JamCount equals the number of times the control state has entered
\* FAULT so far.
C15_JamCountIsFaultEntries ==
    last_op = "update" => tags.rHMI_JamCount = pre.faults

\* two jam faults counted, the first one recovered
C15_Witness ==
    /\ last_op = "update"
    /\ tags.bEStop
    /\ pre.faults = 2
    /\ tags.rHMI_JamCount = 2
    /\ CountEvents("JAM_CLEARED") >= 1

\* the locations named by the JAM events of a box
JamLocOf(id) ==
    { events[k].jam_loc : k \in { j \in 1..Len(events) :
          events[j].kind = "JAM" /\ events[j].box_id = id } }

\* C16 as stated: a JAMMED box in the active list stands on the position of
\* the jam site it jammed at, and the photoeye of that site is blocked, from
\* the transition until the box is removed, for every jam_location.
C16_AsStated ==
    \A i \in JammedBoxes(active_boxes) :
        \A loc \in JamLocOf(active_boxes[i].box_id) :
            /\ Overlaps(active_boxes[i], SitePos(loc))
            /\ Photoeyes(active_boxes)[loc]

\* with a fixed jam_location other than "outfeed_b" (where a reject box
\* blocks the outfeed C photoeye instead) the JAMMED box does block the
\* photoeye of its site
C16_FixedSiteBlocked ==
    config.jam_location \in {"infeed", "diverter"} => C16_AsStated

\* C17: after every sub-step, every box in the active list at or past the
\* diverter photoeye position has routed = true.
C17_PastDiverterRouted ==
    \A i \in 1..Len(active_boxes) :
        active_boxes[i].position_mm >= DiverterPEPos => active_boxes[i].routed

\* a box standing exactly on the diverter position, and one past it
C17_Witness ==
    /\ last_op = "update"
    /\ \E i \in 1..Len(active_boxes) :
          active_boxes[i].position_mm = DiverterPEPos /\ active_boxes[i].routed
    /\ \E i \in 1..Len(active_boxes) :
          active_boxes[i].position_mm > DiverterPEPos /\ active_boxes[i].routed

\* the box with the given id in a list of boxes, as a set of at most one box
BoxById(boxes, id) == { boxes[i] : i \in { j \in 1..Len(boxes) : boxes[j].box_id = id } }

\* C18: for every box, routed changes only from false to true, only in a
\* sub-step that leaves the box at position_mm >= diverter_pe_pos, and
\* is_reject is then the bDiverterActuator value left by that sub-step's
\* scan; a box not yet routed is not a reject, and once routed neither
\* routed nor is_reject changes.
C18_RoutedOnce ==
    [][ \A b \in { active_boxes[i] : i \in 1..Len(active_boxes) } :
          \A c \in BoxById(active_boxes', b.box_id) :
            /\ b.routed => c.routed /\ c.is_reject = b.is_reject
            /\ (~b.routed /\ c.routed) =>
                  /\ c.position_mm >= DiverterPEPos
                  /\ c.is_reject = tags'.bDiverterActuator
            /\ ~c.routed => ~c.is_reject
      ]_vars

\* a routed box has been committed as a reject and another one as accepted
C18_Witness ==
    /\ last_op = "update"
    /\ \E i \in 1..Len(active_boxes) :
          active_boxes[i].routed /\ active_boxes[i].is_reject
    /\ \E i \in 1..Len(active_boxes) :
          /\ active_boxes[i].routed /\ ~active_boxes[i].is_reject
          /\ active_boxes[i].position_mm > DiverterPEPos

\* C19: between successive sub-steps the position of a box that is not
\* JAMMED does not decrease, it is unchanged when the sub-step's scan left
\* bConveyorMotor = false, and a JAMMED box does not move.
C19_PositionsMonotone ==
    [][ \A b \in { active_boxes[i] : i \in 1..Len(active_boxes) } :
          \A c \in BoxById(active_boxes', b.box_id) :
            /\ c.position_mm >= b.position_mm
            /\ ~tags'.bConveyorMotor => c.position_mm = b.position_mm
            /\ b.state = "jammed" =>
                  c.position_mm = b.position_mm /\ c.state = "jammed"
      ]_vars

\* the belt is running past a JAMMED box while another box moves on
C19_Witness ==
    /\ last_op = "update"
    /\ tags.bConveyorMotor
    /\ JammedBoxes(active_boxes) # {}
    /\ \E i \in 1..Len(active_boxes) :
          /\ active_boxes[i].state # "jammed"
          /\ active_boxes[i].position_mm > 0

\* the BOX_ARRIVAL events in the order they were logged
Arrivals == SelectSeq(events, LAMBDA e : e.kind = "BOX_ARRIVAL")

\* the ids of the boxes that left the active list: exits and removals
GoneIds ==
    { events[k].box_id : k \in { j \in 1..Len(events) :
          events[j].kind \in {"BOX_EXIT_B", "BOX_EXIT_C", "JAM_CLEARED"} } }

\* C20: box ids are 1, 2, 3, ... in creation order: the k-th box created
\* has id k, the counter is one past the last id given, the active boxes
\* (kept in creation order) have strictly increasing ids among those given,
\* and the id of a box that exited or was removed is not in use again.
C20_IdsInCreationOrder ==
    /\ \A k \in 1..Len(Arrivals) : Arrivals[k].box_id = k
    /\ next_box_id = Len(Arrivals) + 1
    /\ \A i \in 1..Len(active_boxes) :
          /\ active_boxes[i].box_id \in 1..Len(Arrivals)
          /\ active_boxes[i].box_id \notin GoneIds
          /\ \A j \in 1..Len(active_boxes) :
                i < j => active_boxes[i].box_id < active_boxes[j].box_id

\* a box was created after box 1 was removed by the operator
C20_Witness ==
    /\ last_op = "update"
    /\ 1 \in GoneIds
    /\ CountEvents("JAM_CLEARED") >= 1
    /\ \E i \in 1..Len(active_boxes) : active_boxes[i].box_id >= 2
    /\ events[Len(events)].kind = "BOX_ARRIVAL"

\* a box was created in this step: a BOX_ARRIVAL event was logged
BoxCreated == Len(Arrivals') > Len(Arrivals)

\* C21: a box is created in a sub-step only if the simulated time has reached
\* next_arrival_time and the control state after that sub-step's scan is
\* RUNNING (never in STOPPED, STARTING or FAULT), and the box starts at
\* position 0: after the sub-step it stands at 0 if it jammed at once or the
\* motor output was still off (the scan that entered RUNNING), and one
\* sub-step's travel from 0 otherwise.
C21_CreatedOnlyWhenDueAndRunning ==
    [][ BoxCreated =>
          /\ sim_time' >= next_arrival_time
          /\ tags'.iHMI_State = RUNNING
          /\ plc'.state = RUNNING
          /\ Len(Arrivals') = Len(Arrivals) + 1
          /\ \A c \in BoxById(active_boxes', next_box_id) :
                c.position_mm = IF c.state = "jammed" \/ ~tags'.bConveyorMotor
                                THEN 0
                                ELSE BeltSpeedMms * tags'.rConveyorSpeed
                                     * config.step
          /\ BoxById(active_boxes', next_box_id) # {}
      ]_vars

\* a box created after an arrival fell due in FAULT and was skipped
C21_Witness ==
    /\ last_op = "update"
    /\ pre.faults >= 1
    /\ tags.iHMI_State = RUNNING
    /\ events[Len(events)].kind = "BOX_ARRIVAL"
    /\ \E i \in 1..Len(active_boxes) :
          /\ active_boxes[i].box_id = next_box_id - 1
          /\ active_boxes[i].position_mm = BeltSpeedMms * config.step

\* the box body reaches over a photoeye position
InWindow(box, pos) ==
    /\ pos - BoxLengthMm \div 2 <= box.position_mm
    /\ box.position_mm <= pos + BoxLengthMm \div 2

\* the photoeyes a box can block: infeed, diverter and the outfeed of its
\* routing
CanBlock(box) ==
    {"infeed", "diverter"}
       \cup (IF box.is_reject THEN {"outfeed_c"} ELSE {"outfeed_b"})

\* C22: no box skips a photoeye. In every sub-step (at most 0.05 s, speed
\* setpoint 1) the scan reads as blocked each photoeye that a box of the
\* active list reaches over; a box that has not reached a photoeye it can
\* block is not carried past it within one sub-step; and a box created in
\* the sub-step still reaches over the infeed photoeye at its end, so that
\* the next scan reads it.
C22_NoPhotoeyeSkipped ==
    [][ last_op' = "update" =>
          /\ \A i \in 1..Len(active_boxes) :
                \A loc \in CanBlock(active_boxes[i]) :
                    InWindow(active_boxes[i], SitePos(loc)) => pre'.pe[loc]
          /\ \A i \in 1..Len(active_boxes) :
                \A c \in BoxById(active_boxes', active_boxes[i].box_id) :
                    \A loc \in CanBlock(c) :
                        active_boxes[i].position_mm + BoxLengthMm \div 2
                              < SitePos(loc)
                          => c.position_mm - BoxLengthMm \div 2 <= SitePos(loc)
          /\ \A j \in 1..Len(active_boxes') :
                BoxById(active_boxes, active_boxes'[j].box_id) = {}
                  => InWindow(active_boxes'[j], InfeedPEPos)
      ]_vars

\* boxes have gone through the infeed, the diverter and an outfeed photoeye
\* and the scans counted them
C22_Witness ==
    /\ last_op = "update"
    /\ \E i \in 1..Len(active_boxes) :
          active_boxes[i].position_mm - BoxLengthMm \div 2 > OutfeedBPos
    /\ plc.box_counter >= 2
    /\ tags.rHMI_BoxCount >= 1

\* the occupancy predicate of a photoeye for a list of boxes
Occupied(boxes, loc) ==
    \E i \in 1..Len(boxes) :
        loc \in CanBlock(boxes[i]) /\ InWindow(boxes[i], SitePos(loc))

\* C23: the scan of every sub-step starts with the four photoeye tags equal
\* to the occupancy of the active boxes at that moment, and so do the extra
\* scans of the operator recovery (the active boxes being those left after
\* the removal); the motion of the sub-step uses the bConveyorMotor and
\* bDiverterActuator values left by the sub-step's scans: boxes advance
\* exactly if the motor tag is true, and a routing commit takes the diverter
\* tag.
C23_ScansSeeCurrentBoxes ==
    [][ last_op' = "update" =>
          /\ \A loc \in SiteSet : pre'.pe[loc] = Occupied(active_boxes, loc)
          /\ \A k \in 1..Len(pre'.rpe) : \A loc \in SiteSet :
                pre'.rpe[k][loc] = Occupied(active_boxes', loc)
          /\ \A i \in 1..Len(active_boxes) :
                \A c \in BoxById(active_boxes', active_boxes[i].box_id) :
                  /\ c.position_mm = active_boxes[i].position_mm
                        + (IF tags'.bConveyorMotor /\ c.state # "jammed"
                           THEN BeltSpeedMms * tags'.rConveyorSpeed * config.step
                           ELSE 0)
                  /\ (~active_boxes[i].routed /\ c.routed)
                        => c.is_reject = tags'.bDiverterActuator
      ]_vars

\* the recovery has just removed a box from a photoeye: its extra scans
\* started with a photoeye clear that the sub-step's scan saw blocked
C23_Witness ==
    /\ last_op = "update"
    /\ Len(pre.rpe) = 2
    /\ \E loc \in SiteSet : pre.pe[loc] /\ ~pre.rpe[1][loc] /\ ~pre.rpe[2][loc]
    /\ active_boxes # <<>>

\* C24: after every scan, in every control state and for every input, the
\* one-shot command tags bHMI_Start, bHMI_Stop and bHMI_FaultClear are
\* false, and the scan has read the commands written before it: the values
\* it saves as previous start and previous fault clear are the ones the
\* tags held when it began. A command is therefore read by the one scan
\* that follows its write and by no later one.
C24_OneShotsConsumed ==
    [][ last_op' = "scan" =>
          /\ ~tags'.bHMI_Start /\ ~tags'.bHMI_Stop /\ ~tags'.bHMI_FaultClear
          /\ plc'.prev_fault_clear = tags.bHMI_FaultClear
          /\ plc'.prev_start = (tags.bStartPB \/ tags.bHMI_Start)
      ]_vars

\* a scan has read a start and a fault-clear command and cleared both
C24_Witness ==
    /\ last_op = "scan"
    /\ plc.prev_fault_clear /\ ~tags.bHMI_FaultClear
    /\ plc.prev_start /\ ~tags.bStartPB /\ ~tags.bHMI_Start
    /\ plc.state = FAULT

\* C25: a scan that starts in RUNNING and sees a falling edge of bStopPB or
\* bHMI_Stop = true ends with bConveyorMotor = false, in STOPPED if no fault
\* is active in that scan and in FAULT if one is (fault has priority).
C25_StopFromRunning ==
    [][ (last_op' = "scan" /\ plc.state = RUNNING
            /\ (StopFallingRead \/ tags.bHMI_Stop)) =>
          /\ ~tags'.bConveyorMotor
          /\ plc'.state = IF plc'.estop_latched \/ plc'.jam_latched
                          THEN FAULT ELSE STOPPED
          /\ tags'.iHMI_State = plc'.state
      ]_vars

\* the stop pushbutton has just stopped the running conveyor
C25_Witness ==
    /\ last_op = "scan"
    /\ pre.state = RUNNING
    /\ plc.state = STOPPED
    /\ ~tags.bStopPB
    /\ ~plc.estop_latched /\ ~plc.jam_latched

\* the stop pushbutton and the e-stop were pressed for the same scan in
\* RUNNING: the scan ended in FAULT
C25_FaultWinsReached ==
    /\ last_op = "scan"
    /\ pre.state = RUNNING
    /\ plc.state = FAULT
    /\ ~tags.bStopPB /\ ~tags.bEStop

\* C26: a scan that reads bModeSelector = true (manual) leaves the motor
\* output false while bHMI_JogFwd = false, and with bHMI_JogFwd = true
\* leaves it true only if the scan started in RUNNING and the safety chain
\* is clear in that scan (bEStop and bStopPB true, no e-stop or jam latch).
C26_ManualJog ==
    [][ (last_op' = "scan" /\ tags.bModeSelector /\ tags'.bConveyorMotor) =>
          /\ tags.bHMI_JogFwd
          /\ plc.state = RUNNING
          /\ tags.bEStop /\ tags.bStopPB
          /\ ~plc'.estop_latched /\ ~plc'.jam_latched
      ]_vars

\* jogging: the motor runs in manual mode
C26_Witness ==
    /\ last_op = "scan"
    /\ tags.bModeSelector
    /\ tags.bHMI_JogFwd
    /\ tags.bConveyorMotor
    /\ plc.state = RUNNING

\* manual mode in RUNNING without jog: the motor is off
C26_IdleReached ==
    /\ last_op = "scan"
    /\ pre.state = RUNNING /\ plc.state = RUNNING
    /\ tags.bModeSelector /\ ~tags.bHMI_JogFwd
    /\ ~tags.bConveyorMotor

\* C27: after every scan that ends with the control state not RUNNING, or
\* that read bModeSelector = true (manual), bDiverterActuator is false.
C27_DiverterOffOutsideAutoRunning ==
    [][ (last_op' = "scan" /\ (plc'.state # RUNNING \/ tags.bModeSelector))
          => ~tags'.bDiverterActuator
      ]_vars

\* the diverter was extended for a reject and the next scan, reading manual
\* mode or ending outside RUNNING, retracted it while it was still locked
C27_Witness ==
    /\ last_op = "scan"
    /\ plc.diverter_locked /\ plc.reject_next
    /\ ~tags.bDiverterActuator
    /\ (plc.state # RUNNING \/ tags.bModeSelector)

\* the diverter extended in auto mode in RUNNING
C27_ExtendedReached ==
    last_op = "scan" /\ tags.bDiverterActuator /\ plc.state = RUNNING

\* C28 as stated: after every scan that ends with iHMI_State = 3 (FAULT),
\* bAlarmBuzzer is true and bConveyorMotor is false, the scan that performs
\* the RUNNING -> FAULT or STARTING -> FAULT transition included.
C28_AsStated ==
    (last_op = "scan" /\ tags.iHMI_State = FAULT)
        => (tags.bAlarmBuzzer /\ ~tags.bConveyorMotor)

\* C28, the part the scan keeps: the motor is off after every scan that ends
\* in FAULT, and the buzzer is on after every scan that started in FAULT
C28_FaultOutputs ==
    (last_op = "scan")
        => /\ (tags.iHMI_State = FAULT => ~tags.bConveyorMotor)
           /\ (pre.state = FAULT => tags.bAlarmBuzzer)

\* a scan entered FAULT from RUNNING or STARTING and left the buzzer off
C28_SilentEntry ==
    /\ last_op = "scan"
    /\ pre.state \in {RUNNING, STARTING}
    /\ tags.iHMI_State = FAULT
    /\ ~tags.bAlarmBuzzer

\* a scan that started and ended in FAULT sounded the buzzer
C28_Witness ==
    /\ last_op = "scan"
    /\ pre.state = FAULT
    /\ tags.iHMI_State = FAULT
    /\ tags.bAlarmBuzzer
    /\ ~tags.bConveyorMotor

\* C29 as stated: when a fault-free run driven by run() reaches its duration
\* and is finalized, the control state reported in iHMI_State ends as 0
\* (STOPPED).
C29_AsStated ==
    (pc = "finalized") => (tags.iHMI_State = STOPPED)

\* C29, what the finalized run reports: the stop command is written and no
\* scan follows it, so iHMI_State keeps the value of the last scan of the run
C29_StopWrittenNotScanned ==
    [][ (pc' = "finalized" /\ pc = "running")
          => /\ tags'.bHMI_Stop
             /\ tags'.iHMI_State = tags.iHMI_State
             /\ plc' = plc
      ]_vars

\* a fault-free run finalized with the stop command pending and the control
\* state still reported as RUNNING, the motor output still on
C29_FinalizedRunning ==
    /\ pc = "finalized"
    /\ tags.bHMI_Stop
    /\ tags.iHMI_State = RUNNING
    /\ tags.bConveyorMotor
    /\ CountEvents("jam") = 0

\* C30 as stated: two runs started through main() with the same --seed, the
\* same configuration and the same sub-steps produce identical event streams
\* (same arrival times, same events): every draw that influences the run,
\* the draw scheduling the first arrival included, is determined by the seed.
C30_AsStated ==
    (runs.n = 1 /\ pc = "finalized")
        => (runs.sched = runs.first_sched /\ events = runs.first_events)

\* C30, what the seed does determine: two runs whose constructors happened to
\* schedule the same first arrival agree on every later arrival and event
C30_OnlyFirstDrawUnseeded ==
    (runs.n = 1 /\ pc = "finalized" /\ runs.sched[1] = runs.first_sched[1])
        => (runs.sched = runs.first_sched /\ events = runs.first_events)

\* the second run with the same seed finished with other arrival times and
\* another event stream than the first
C30_RunsDiffer ==
    /\ runs.n = 1
    /\ pc = "finalized"
    /\ rng.seeded
    /\ runs.sched[1] # runs.first_sched[1]
    /\ events # runs.first_events

\* the second run repeated the first, several arrivals scheduled in each
C30_RunsAgree ==
    /\ runs.n = 1
    /\ pc = "finalized"
    /\ Len(runs.sched) >= 3
    /\ runs.sched = runs.first_sched
    /\ events = runs.first_events

C31_ScanBetweenReached ==
    /\ last_op = "read"
    /\ reply.name = "bHMI_Start"
    /\ reply.value = FALSE
    /\ reply.writes = 1
    /\ plc.state = STARTING

\* C32: read(name) and write(name, v) with a name outside the closed tag set
\* fail with KeyError and leave the tag table unchanged; no tag is ever
\* added to the table.
C32_UnknownNameFails ==
    [][ /\ (last_op' \in {"read", "write"} /\ reply'.name \notin TagNames)
            => (reply'.error = "KeyError" /\ tags' = tags)
        /\ DOMAIN tags' = TagNames
      ]_vars

\* an unknown name was written after a known tag had been changed, and the
\* table still holds that change and nothing else
C32_Witness ==
    /\ last_op = "write"
    /\ reply.name \in UnknownNames
    /\ reply.error = "KeyError"
    /\ reply.writes = 2
    /\ tags # TagDefaults
    /\ DOMAIN tags = TagNames

\* an unknown name was read
C32_ReadFailed ==
    /\ last_op = "read"
    /\ reply.name \in UnknownNames
    /\ reply.error = "KeyError"
    /\ reply.writes = 1

\* a jam was latched by this step
JamLatchedNow == ~plc.jam_latched /\ plc'.jam_latched

\* C33 as stated: a jam is latched at a site only on a scan that began in
\* RUNNING and only after that site's photoeye read blocked on every scan of
\* an unbroken run of RUNNING scans whose dt sum is at least rJamTimeoutSec;
\* any scan in which the photoeye reads clear or the state is not RUNNING
\* resets that site's timer to 0; and outside RUNNING all four timers are 0
\* after the scan.
C33_AsStated ==
    (last_op = "scan" /\ plc.state # RUNNING)
        => \A s \in SiteSet : plc.jam_timers[s] = 0

\* C33: each site's timer is the dt sum of the unbroken run of scans that
\* began in RUNNING and read the site's photoeye blocked (it grows by dt on
\* such a scan and is 0 after any other); a jam is latched only by a scan
\* that began in RUNNING, at a site whose photoeye it read blocked and whose
\* timer has reached rJamTimeoutSec; and after every scan that began outside
\* RUNNING all four timers are 0.
C33_JamTimerIsBlockedRun ==
    [][ last_op' = "scan" =>
          /\ \A s \in SiteSet :
                plc'.jam_timers[s] =
                    IF plc.state = RUNNING /\ pre'.pe[s]
                    THEN plc.jam_timers[s] + pre'.dt ELSE 0
          /\ JamLatchedNow =>
                /\ plc.state = RUNNING
                /\ plc'.jam_location \in SiteSet
                /\ pre'.pe[plc'.jam_location]
                /\ plc'.jam_timers[plc'.jam_location] >= tags'.rJamTimeoutSec
          /\ plc.state # RUNNING =>
                \A s \in SiteSet : plc'.jam_timers[s] = 0
      ]_vars

\* a jam latched at the diverter after its photoeye was blocked for the whole
\* timeout, the infeed photoeye's shorter run not having latched
C33_Witness ==
    /\ last_op = "scan"
    /\ plc.jam_latched
    /\ plc.jam_location = "diverter"
    /\ plc.jam_timers["diverter"] >= tags.rJamTimeoutSec
    /\ plc.jam_timers["infeed"] > 0
    /\ plc.jam_timers["infeed"] < tags.rJamTimeoutSec
    /\ pre.state = RUNNING

\* a scan that began in RUNNING ended outside RUNNING without a jam and left
\* a timer running
C33_TimerLeftRunning ==
    /\ last_op = "scan"
    /\ pre.state = RUNNING
    /\ plc.state # RUNNING
    /\ ~plc.jam_latched
    /\ \E s \in SiteSet : plc.jam_timers[s] > 0

\* the scan of this sub-step completed a cycle
CycleRecorded ==
    last_op' = "update" /\ plc'.metrics_box_count = plc.metrics_box_count + 1

\* the boxes whose arrival at their outfeed photoeye the scan of this
\* sub-step read
AtOutfeedNow ==
    { i \in 1..Len(active_boxes) :
        InWindow(active_boxes[i],
                 IF active_boxes[i].is_reject THEN OutfeedCPos
                 ELSE OutfeedBPos) }

\* C34 as stated: each completed cycle measures one box: the cycle time
\* recorded (last_cycle_time, added to cycle_time_sum) at a box's outfeed
\* photoeye rising edge is the dt accumulated since that same box's infeed
\* photoeye rising edge (counted with or without the dt of the scan that
\* read that edge), also with several boxes on the belt.
C34_AsStated ==
    [][ CycleRecorded =>
          \E i \in AtOutfeedNow :
             /\ plc'.last_cycle_time
                   \in { sim_time' - active_boxes[i].arrival_time,
                         sim_time' - active_boxes[i].arrival_time
                            - config.step }
             /\ plc'.cycle_time_sum
                   = plc.cycle_time_sum + plc'.last_cycle_time
      ]_vars

\* C34, what a completed cycle measures: the dt of the scans from the one
\* that opened the cycle (an infeed rising edge read while no cycle was open)
\* to the one that read an outfeed rising edge, whichever boxes those were
C34_CycleIsOpenTime ==
    [][ last_op' = "update" /\ Len(pre'.rpe) = 0 =>
          /\ CycleRecorded =>
                /\ plc'.last_cycle_time = plc.cycle_timer + config.step
                /\ plc'.cycle_time_sum
                      = plc.cycle_time_sum + plc'.last_cycle_time
                /\ ~plc'.cycle_active /\ plc'.cycle_timer = 0
          /\ (plc.cycle_active /\ ~CycleRecorded) =>
                /\ plc'.cycle_timer = plc.cycle_timer + config.step
                /\ plc'.last_cycle_time = plc.last_cycle_time
      ]_vars

\* with one box on the belt at a time the cycle recorded is that box's
\* time from infeed to outfeed
C34_OneBoxMeasured ==
    /\ last_op = "update"
    /\ config.rate = 360
    /\ plc.metrics_box_count = 2
    /\ plc.last_cycle_time = (OutfeedBPos - BoxLengthMm \div 2) \div BeltSpeedMms

\* with several boxes on the belt a cycle was recorded that is shorter than
\* any box's travel from the infeed to an outfeed photoeye
C34_WrongBoxMeasured ==
    /\ last_op = "update"
    /\ plc.metrics_box_count >= 2
    /\ plc.last_cycle_time > 0
    /\ plc.last_cycle_time < (OutfeedBPos - BoxLengthMm \div 2) \div BeltSpeedMms

C36_FaultIffLatched ==
    (last_op = "scan") =>
        /\ plc.jam_latched => plc.state = FAULT
        /\ plc.state = FAULT => (plc.estop_latched \/ plc.jam_latched)

\* the scan that cleared the last latch (a jam, the e-stop having been
\* cleared or never set) left FAULT for STOPPED
C36_Witness ==
    /\ last_op = "scan"
    /\ pre.state = FAULT
    /\ plc.state = STOPPED
    /\ plc.prev_fault_clear
    /\ ~plc.estop_latched /\ ~plc.jam_latched
    /\ plc.metrics_jam_count >= 1

\* the scan that latched a jam ended in FAULT
C36_JamEntersFault ==
    /\ last_op = "scan"
    /\ pre.state = RUNNING
    /\ plc.state = FAULT
    /\ plc.jam_latched /\ ~plc.estop_latched

\* C37: after every scan, fault_code = NONE (sHMI_FaultMsg = "") if and only
\* if neither estop_latched nor jam_latched is set.
C37_FaultCodeIffLatched ==
    (last_op = "scan") =>
        /\ (plc.fault_code = NONE) <=> (~plc.estop_latched /\ ~plc.jam_latched)
        /\ (tags.sHMI_FaultMsg = "") <=> (plc.fault_code = NONE)

\* a fault-clear edge was read in FAULT with the e-stop healthy and no
\* e-stop latch is left, but a jam stayed latched: a fault is still reported
C37_Witness ==
    /\ last_op = "scan"
    /\ pre.state = FAULT
    /\ plc.prev_fault_clear
    /\ ~plc.estop_latched /\ plc.jam_latched
    /\ plc.fault_code # NONE
    /\ tags.sHMI_FaultMsg # ""
    /\ tags.bEStop

\* C38 as stated: after every scan the reported fault names a fault that is
\* latched: fault_code = ESTOP implies estop_latched, and fault_code =
\* JAM_<site> implies jam_latched with jam_location = <site>.
C38_AsStated ==
    (last_op = "scan") =>
        /\ plc.fault_code = ESTOP => plc.estop_latched
        /\ \A s \in SiteSet :
              plc.fault_code = SiteFaultCode(s)
                  => (plc.jam_latched /\ plc.jam_location = s)

\* C38, the jam half: a reported jam names the latched jam's site
C38_JamNamesLatch ==
    (last_op = "scan") =>
        \A s \in SiteSet :
            plc.fault_code = SiteFaultCode(s)
                => (plc.jam_latched /\ plc.jam_location = s)

\* the e-stop is reported although only a jam is latched: the e-stop was
\* pressed during a jam, released, and cleared with the jam's photoeye
\* still blocked
C38_StaleEStopReported ==
    /\ last_op = "scan"
    /\ plc.fault_code = ESTOP
    /\ ~plc.estop_latched
    /\ plc.jam_latched
    /\ tags.bEStop

\* C39 as stated: whenever bDiverterActuator is true after a scan, the
\* diverter photoeye read blocked in that scan: the diverter is extended only
\* while a box is at the diverter photoeye, also after the state has left
\* RUNNING and later returned to it.
C39_AsStated ==
    (last_op = "scan" /\ tags.bDiverterActuator) => pre.pe.diverter

\* C39, as long as the state has not left auto RUNNING since the diverter
\* locked: a scan that began in RUNNING with the diverter unlocked extends the
\* actuator only if it read the diverter photoeye blocked
C39_ExtendedOnArrival ==
    [][ (last_op' = "scan" /\ ~plc.diverter_locked /\ tags'.bDiverterActuator)
          => (pre'.pe.diverter /\ ~plc.prev_diverter_pe /\ plc'.reject_next)
      ]_vars

\* the diverter is extended with its photoeye clear: the reject it locked
\* for left the photoeye while the state was outside RUNNING
C39_ExtendedWithoutBox ==
    /\ last_op = "scan"
    /\ tags.bDiverterActuator
    /\ ~pre.pe.diverter
    /\ ~plc.prev_diverter_pe
    /\ plc.diverter_locked
    /\ plc.state = RUNNING

\* the same in a run: the operator removed a reject jammed at the diverter
\* and the restarted conveyor has the diverter extended
C39_ExtendedAfterRemoval ==
    /\ last_op = "update"
    /\ tags.bDiverterActuator
    /\ ~tags.bDiverterPE
    /\ CountEvents("JAM_CLEARED") >= 1
    /\ plc.state = RUNNING

\* the motor command the state machine gave in the scan of this step
MotorCmd == Scan(plc, WritePE(tags, pre'.pe), pre'.dt).motor_cmd

\* C40: the final motor gate is redundant in every reachable scan: the motor
\* output equals the motor command; the state machine never commands the
\* motor on in a scan that reads bEStop false or bStopPB false or that
\* leaves estop_latched set.
C40_MotorGateRedundant ==
    [][ last_op' = "scan" =>
          /\ tags'.bConveyorMotor = MotorCmd
          /\ MotorCmd => (tags.bEStop /\ tags.bStopPB /\ ~plc'.estop_latched)
      ]_vars

\* a scan that began in RUNNING read the e-stop pressed, or the stop button
\* pressed, and the command was already withdrawn by the state machine
C40_Witness ==
    /\ last_op = "scan"
    /\ pre.state = RUNNING
    /\ ~tags.bStopPB
    /\ ~tags.bConveyorMotor
    /\ plc.state = STOPPED

\* the same for the e-stop
C40_EStopReached ==
    /\ last_op = "scan"
    /\ pre.state = RUNNING
    /\ ~tags.bEStop
    /\ ~tags.bConveyorMotor
    /\ plc.state = FAULT

====
